---- MODULE Spec2Model ----
(***************************************************************************)
(* Publication scheduler and idempotency engine of the Telegram channel    *)
(* bot (src/bot.py, src/config.py).                                        *)
(*                                                                         *)
(* Time is counted in whole seconds on one clock, `now`: the wall clock of *)
(* the fixed UTC+3 zone.  datetime.now() of the host is read off the same  *)
(* clock (the host runs in that zone).  Time passes in asyncio.sleep (the *)
(* sleep of run_loop, the status polls of an image task, a FloodWait) and  *)
(* while the process is down; synchronous code and the other awaited calls *)
(* are taken to return at once.                                            *)
(*                                                                         *)
(* A text is a sequence of one-character strings.  hashlib.md5 is taken to *)
(* be injective: the hash of a text is its normalised form.                *)
(***************************************************************************)
EXTENDS Integers, Sequences, FiniteSets, TLC

(* Python None of a datetime or date field, of a news id, of a text *)
NoTime == -1
NoDate == -1
NoId == 0
NoText == <<>>
(* Python None of an image URL; the statuses of a call that polled nothing *)
NoUrl == "None"
NoStatuses == <<>>

----------------------------------------------------------------------------
(* Bounds of the model                                                     *)

MaxNews == 2
MaxRestarts == 1
MaxTicks == 1
MaxManual == 1
MaxLen == 3
MaxWords == 3
MaxUpdates == 5

----------------------------------------------------------------------------
(* Program constants                                                       *)

POSTS_PER_DAY == 999
MinIntervalSec == 1800
FarCheckInterval == 30
ToleranceSec == 6
PRICE_POST_MORNING_HOUR == 11
PRICE_POST_EVENING_HOUR == 22
WindowLastMinute == 15
NearFirstMinute == 55
NearCheckInterval == 60
max_attempts == 36
ImagePollSec == 5
NewsLimit == 100
TestNewsLimit == 4

DaySec == 24 * 60 * 60
HourSec == 60 * 60

----------------------------------------------------------------------------
(* Calendar                                                                *)

DateOf(t) == t \div DaySec
HourOf(t) == (t % DaySec) \div HourSec
MinuteOf(t) == (t % HourSec) \div 60
Midnight(t) == DateOf(t) * DaySec
HMS(h, m, s) == h * HourSec + m * 60 + s

----------------------------------------------------------------------------
(* Texts: str.lower, str.strip, str.split, ' '.join, `in`                  *)

UpperChars == <<"A", "B", "C", "D", "E", "F", "G", "H", "I", "J", "K", "L", "M",
                "N", "O", "P", "Q", "R", "S", "T", "U", "V", "W", "X", "Y", "Z">>
LowerChars == <<"a", "b", "c", "d", "e", "f", "g", "h", "i", "j", "k", "l", "m",
                "n", "o", "p", "q", "r", "s", "t", "u", "v", "w", "x", "y", "z">>
Whitespace == {" ", "\n", "\t"}

LowerChar(c) ==
    IF \E i \in DOMAIN UpperChars : UpperChars[i] = c
    THEN LowerChars[CHOOSE i \in DOMAIN UpperChars : UpperChars[i] = c]
    ELSE c

lower(t) == [i \in DOMAIN t |-> LowerChar(t[i])]

RECURSIVE lstrip(_)
lstrip(t) ==
    IF t = <<>> THEN <<>>
    ELSE IF Head(t) \in Whitespace THEN lstrip(Tail(t)) ELSE t

RECURSIVE rstrip(_)
rstrip(t) ==
    IF t = <<>> THEN <<>>
    ELSE IF t[Len(t)] \in Whitespace THEN rstrip(SubSeq(t, 1, Len(t) - 1)) ELSE t

strip(t) == rstrip(lstrip(t))

(* str.split() without arguments: the maximal runs of non-whitespace *)
RECURSIVE SplitFrom(_, _, _)
SplitFrom(t, word, acc) ==
    IF t = <<>>
    THEN IF word = <<>> THEN acc ELSE Append(acc, word)
    ELSE IF Head(t) \in Whitespace
         THEN SplitFrom(Tail(t), <<>>, IF word = <<>> THEN acc ELSE Append(acc, word))
         ELSE SplitFrom(Tail(t), Append(word, Head(t)), acc)

split(t) == SplitFrom(t, <<>>, <<>>)

RECURSIVE join(_)
join(words) ==
    IF words = <<>> THEN <<>>
    ELSE IF Len(words) = 1 THEN words[1]
    ELSE words[1] \o <<" ">> \o join(Tail(words))

(* kw in text *)
Contains(text, kw) ==
    \E i \in 0..(Len(text) - Len(kw)) :
        \A j \in 1..Len(kw) : text[i + j] = kw[j]

startswith(text, prefix) ==
    /\ Len(prefix) <= Len(text)
    /\ \A j \in 1..Len(prefix) : text[j] = prefix[j]

(* faulty variant of normalized: the case of the letters is kept *)
NormalizedKeepCase(content) == join(split(strip(content)))

normalized(content) == join(split(lower(strip(content))))

get_post_hash(content) == normalized(content)

----------------------------------------------------------------------------
(* RelevanceClassifier.  The keyword tables are samples of the tables of   *)
(* the source (same categories, same order of evaluation).                 *)

ukraine_keywords ==
    { <<"u", "k", "r", "a", "i", "n", "e">>,
      <<"z", "e", "l", "e", "n", "s", "k", "y">> }
political_markers ==
    { <<"w", "a", "r">>,
      <<"u", "s", "a">>,
      <<"e", "u">>,
      <<"t", "r", "u", "m", "p">> }
strict_crypto_keywords ==
    { <<"c", "r", "y", "p", "t", "o">>,
      <<"b", "t", "c">>,
      <<"t", "o", "n">> }
general_keywords ==
    { <<"t", "o", "k", "e", "n">>,
      <<"c", "o", "i", "n">>,
      <<"a", "l", "t", "c", "o", "i", "n">>,
      <<"l", "i", "q", "u", "i", "d", "i", "t", "y">> }
financial_context ==
    { <<"p", "r", "i", "c", "e">>,
      <<"r", "a", "t", "e">>,
      <<"f", "a", "l", "l">>,
      <<"i", "n", "v", "e", "s", "t">>,
      <<"e", "x", "c", "h", "a", "n", "g", "e">>,
      <<"t", "r", "a", "d", "i", "n", "g">> }
tech_context ==
    { <<"b", "l", "o", "c", "k", "c", "h", "a", "i", "n">>,
      <<"t", "e", "c", "h", "n", "o", "l", "o", "g", "y">>,
      <<"p", "r", "o", "t", "o", "c", "o", "l">>,
      <<"n", "e", "t", "w", "o", "r", "k">> }

AnyIn(keywords, text_lower) == \E kw \in keywords : Contains(text_lower, kw)

(* faulty variant of is_relevant_news: the strict keywords are looked for   *)
(* before ukraine_keywords                                                 *)
IsRelevantStrictFirst(text) ==
    IF text = NoText THEN FALSE
    ELSE LET text_lower == lower(text)
             has_political == AnyIn(political_markers, text_lower)
             found_general == {kw \in general_keywords : Contains(text_lower, kw)}
             has_general == AnyIn(general_keywords, text_lower)
             has_financial == AnyIn(financial_context, text_lower)
             has_tech == AnyIn(tech_context, text_lower)
         IN  IF AnyIn(strict_crypto_keywords, text_lower) THEN TRUE
             ELSE IF AnyIn(ukraine_keywords, text_lower) THEN FALSE
             ELSE IF has_political THEN FALSE
             ELSE IF Cardinality(found_general) >= 2 THEN TRUE
             ELSE IF has_general /\ (has_financial \/ has_tech) THEN TRUE
             ELSE FALSE

(* faulty variant of is_relevant_news: the political markers reject before *)
(* the strict keywords are looked for                                      *)
IsRelevantPoliticalFirst(text) ==
    IF text = NoText THEN FALSE
    ELSE LET text_lower == lower(text)
             has_political == AnyIn(political_markers, text_lower)
             found_general == {kw \in general_keywords : Contains(text_lower, kw)}
             has_general == AnyIn(general_keywords, text_lower)
             has_financial == AnyIn(financial_context, text_lower)
             has_tech == AnyIn(tech_context, text_lower)
         IN  IF AnyIn(ukraine_keywords, text_lower) THEN FALSE
             ELSE IF has_political THEN FALSE
             ELSE IF AnyIn(strict_crypto_keywords, text_lower) THEN TRUE
             ELSE IF Cardinality(found_general) >= 2 THEN TRUE
             ELSE IF has_general /\ (has_financial \/ has_tech) THEN TRUE
             ELSE FALSE

(* faulty variant of is_relevant_news: one general keyword is enough *)
IsRelevantOneGeneral(text) ==
    IF text = NoText THEN FALSE
    ELSE LET text_lower == lower(text)
             has_political == AnyIn(political_markers, text_lower)
             found_general == {kw \in general_keywords : Contains(text_lower, kw)}
             has_general == AnyIn(general_keywords, text_lower)
             has_financial == AnyIn(financial_context, text_lower)
             has_tech == AnyIn(tech_context, text_lower)
         IN  IF AnyIn(ukraine_keywords, text_lower) THEN FALSE
             ELSE IF AnyIn(strict_crypto_keywords, text_lower) THEN TRUE
             ELSE IF has_political THEN FALSE
             ELSE IF Cardinality(found_general) >= 1 THEN TRUE
             ELSE IF has_general /\ (has_financial \/ has_tech) THEN TRUE
             ELSE FALSE

is_relevant_news(text) ==
    IF text = NoText THEN FALSE
    ELSE LET text_lower == lower(text)
             has_political == AnyIn(political_markers, text_lower)
             found_general == {kw \in general_keywords : Contains(text_lower, kw)}
             has_general == AnyIn(general_keywords, text_lower)
             has_financial == AnyIn(financial_context, text_lower)
             has_tech == AnyIn(tech_context, text_lower)
         IN  IF AnyIn(ukraine_keywords, text_lower) THEN FALSE
             ELSE IF AnyIn(strict_crypto_keywords, text_lower) THEN TRUE
             ELSE IF has_political THEN FALSE
             ELSE IF Cardinality(found_general) >= 2 THEN TRUE
             ELSE IF has_general /\ (has_financial \/ has_tech) THEN TRUE
             ELSE FALSE

----------------------------------------------------------------------------
(* Sample inputs of the collaborators                                      *)

NewsBtc == <<"B", "T", "C", " ", "p", "r", "i", "c", "e", " ", "u", "p", " ", "5", "%">>
NewsHello == <<"h", "e", "l", "l", "o">>
GenTon == <<"T", "O", "N", " ", "u", "p">>
GenTonVariant == <<"t", "o", "n", " ", " ", "U", "P">>
GenBtc == <<"b", "t", "c", " ", "m", "o", "o", "n">>
GenOffTopic == <<"n", "i", "c", "e", " ", "d", "a", "y">>

(* texts of the messages of the news channel *)
NewsTexts == {NewsBtc, NewsHello}
(* texts the Content Generator returns (already stripped, never empty) *)
Contents == {GenTon, GenTonVariant, GenBtc, GenOffTopic}

(* arguments of publish_post_manual for the study of _get_post_hash: every *)
(* text of up to MaxLen characters over a letter in both cases and a blank *)
TypedChars == {"a", "A", " "}
TextsOfLen(n) == [1..n -> TypedChars]
TypedTexts == UNION {TextsOfLen(n) : n \in 1..MaxLen}

Hashes == {get_post_hash(c) : c \in Contents \cup TypedTexts}

(* texts of the news channel for the study of is_relevant_news: up to      *)
(* MaxWords words, among them a word of every keyword table and a word of  *)
(* none, joined by blanks; no words at all is a message without text       *)
WordUkraine == <<"U", "k", "r", "a", "i", "n", "e">>
WordWar == <<"w", "a", "r">>
WordBtc == <<"B", "T", "C">>
WordToken == <<"t", "o", "k", "e", "n">>
WordAltcoin == <<"a", "l", "t", "c", "o", "i", "n">>
WordPrice == <<"p", "r", "i", "c", "e">>
WordNetwork == <<"n", "e", "t", "w", "o", "r", "k">>
Words == {WordUkraine, WordWar, WordBtc, WordToken, WordAltcoin, WordPrice,
          WordNetwork, NewsHello}
WordTexts == {join(words) : words \in UNION {[1..n -> Words] : n \in 0..MaxWords}}

(* The observed periods.  start: the moment the process is first started;   *)
(* ticks: the number of sleeps of run_loop observed; floods: the e.seconds  *)
(* a FloodWaitError may carry; restarts, downtimes: how often the process  *)
(* is restarted and how long it may stay down; images: whether the image   *)
(* API hands out tasks; manual: the number of manual publications; serial: *)
(* whether the operator's texts are numbered; news: the number of messages *)
(* posted in the news channel; watch: whether failures of the Price        *)
(* Source, Content Generator and Channel Publisher are recorded; typed:    *)
(* whether the operator's texts are the typed texts; audit: what is        *)
(* recorded of the duplicate guard ("marked": the last text marked as      *)
(* published; "refused": the last text refused as a duplicate; "ids": the  *)
(* news ids refused as used; "polled": the list get_new_relevant_news      *)
(* returned last; "image": the status endpoint of the image API answers   *)
(* in every way, not only at once; "sent": the call that delivered the     *)
(* last post of publish_post; "reply": the last answer to the operator;    *)
(* "words": the texts of the news channel are the word texts; with         *)
(* "reply" the operator's texts pass through generate_post_from_text;      *)
(* "calls": the calls of the cycle track since the last sleep; "returned":  *)
(* the ids of the items the polls of the running process returned;         *)
(* "result": what the last publish_post of run_loop returned, how many     *)
(* messages it delivered, and whether a generated text was rejected as     *)
(* not relevant);                                                          *)
(* faults: what the file system may do                                     *)
(* ("write": a write raises; "read": a read raises; "crash": the process   *)
(* dies inside a write).                                                   *)
(* a minute before the morning window, the News Source rate-limited *)
ScnMorning ==
    [start |-> HMS(10, 59, 0), ticks |-> MaxTicks + 1, floods |-> {1000},
     restarts |-> 0, downtimes |-> {}, images |-> TRUE, manual |-> 0,
     serial |-> FALSE, news |-> MaxNews - 1, watch |-> TRUE,
     typed |-> FALSE, audit |-> {"calls"}, faults |-> {}]
(* inside the evening window, restarted at once *)
ScnEvening ==
    [start |-> HMS(22, 0, 30), ticks |-> MaxTicks, floods |-> {},
     restarts |-> MaxRestarts, downtimes |-> {0}, images |-> FALSE, manual |-> 0,
     serial |-> FALSE, news |-> MaxNews, watch |-> FALSE,
     typed |-> FALSE, audit |-> {}, faults |-> {}]
(* at noon, restarted just short of the minimum interval *)
ScnNoon ==
    [start |-> HMS(12, 0, 0), ticks |-> MaxTicks, floods |-> {},
     restarts |-> MaxRestarts, downtimes |-> {MinIntervalSec - ToleranceSec + 1},
     images |-> FALSE, manual |-> 0, serial |-> FALSE, news |-> MaxNews,
     watch |-> FALSE,
     typed |-> FALSE, audit |-> {}, faults |-> {}]
(* just before midnight *)
ScnMidnight ==
    [start |-> HMS(23, 59, 40), ticks |-> MaxTicks, floods |-> {},
     restarts |-> MaxRestarts, downtimes |-> {0}, images |-> TRUE, manual |-> 0,
     serial |-> FALSE, news |-> MaxNews - 1, watch |-> FALSE,
     typed |-> FALSE, audit |-> {}, faults |-> {}]
(* inside the evening window, with the operator publishing by hand *)
ScnManual ==
    [start |-> HMS(22, 0, 30), ticks |-> 0, floods |-> {},
     restarts |-> MaxRestarts, downtimes |-> {0}, images |-> FALSE,
     manual |-> MaxManual, serial |-> FALSE, news |-> MaxNews - 1, watch |-> FALSE,
     typed |-> FALSE, audit |-> {}, faults |-> {}]
(* the same across sleeps of run_loop, with image tasks handed out and the *)
(* news channel silent                                                    *)
ScnManualTicks ==
    [start |-> HMS(22, 0, 30), ticks |-> MaxTicks, floods |-> {},
     restarts |-> 0, downtimes |-> {}, images |-> TRUE,
     manual |-> MaxManual, serial |-> FALSE, news |-> 0, watch |-> FALSE,
     typed |-> FALSE, audit |-> {}, faults |-> {}]
(* at noon, the operator publishing POSTS_PER_DAY numbered texts by hand,   *)
(* then run_loop sleeping until the minimum interval has passed            *)
ScnQuota ==
    [start |-> HMS(12, 0, 0), ticks |-> MinIntervalSec \div FarCheckInterval,
     floods |-> {}, restarts |-> 0, downtimes |-> {}, images |-> FALSE,
     manual |-> POSTS_PER_DAY, serial |-> TRUE, news |-> MaxNews - 1,
     watch |-> FALSE,
     typed |-> FALSE, audit |-> {}, faults |-> {}]
(* at noon, the operator publishing a typed text by hand while run_loop   *)
(* sleeps, then trying a second one                                        *)
ScnTyped ==
    [start |-> HMS(12, 0, 0), ticks |-> 0, floods |-> {}, restarts |-> 0,
     downtimes |-> {}, images |-> FALSE, manual |-> 2,
     serial |-> FALSE, news |-> 0, watch |-> FALSE,
     typed |-> TRUE, audit |-> {"marked", "refused"}, faults |-> {}]
(* the start inside the evening window, the process dying inside           *)
(* _save_state and staying down for the minimum interval                   *)
ScnCrash ==
    [start |-> HMS(22, 0, 30), ticks |-> 0, floods |-> {},
     restarts |-> MaxRestarts, downtimes |-> {MinIntervalSec}, images |-> FALSE,
     manual |-> 0, serial |-> FALSE, news |-> MaxNews, watch |-> FALSE,
     typed |-> FALSE, audit |-> {}, faults |-> {"crash"}]
(* the same with restarts of a process that sleeps, on a file system whose *)
(* reads may raise                                                         *)
ScnRead ==
    [start |-> HMS(22, 0, 30), ticks |-> 0, floods |-> {},
     restarts |-> MaxRestarts, downtimes |-> {MinIntervalSec}, images |-> FALSE,
     manual |-> 0, serial |-> FALSE, news |-> MaxNews, watch |-> FALSE,
     typed |-> FALSE, audit |-> {"refused", "ids", "polled"}, faults |-> {"read"}]
(* inside the evening window, on a file system whose writes may raise      *)
ScnWrite ==
    [start |-> HMS(22, 0, 30), ticks |-> MaxTicks, floods |-> {},
     restarts |-> 0, downtimes |-> {}, images |-> FALSE,
     manual |-> 0, serial |-> FALSE, news |-> MaxNews - 1, watch |-> FALSE,
     typed |-> FALSE, audit |-> {"refused", "polled"}, faults |-> {"write"}]
(* at noon, the image API handing out tasks whose status is polled up to   *)
(* max_attempts times                                                      *)
ScnImage ==
    [start |-> HMS(12, 0, 0), ticks |-> 0, floods |-> {},
     restarts |-> 0, downtimes |-> {}, images |-> TRUE,
     manual |-> 0, serial |-> FALSE, news |-> 1, watch |-> FALSE,
     typed |-> FALSE, audit |-> {"image", "sent"}, faults |-> {}]
(* at noon, one message of the word texts in the news channel *)
ScnWords ==
    [start |-> HMS(12, 0, 0), ticks |-> 0, floods |-> {},
     restarts |-> 0, downtimes |-> {}, images |-> FALSE,
     manual |-> 0, serial |-> FALSE, news |-> 1, watch |-> FALSE,
     typed |-> FALSE, audit |-> {"polled", "words"}, faults |-> {}]
(* at noon, the operator forwarding texts to /p and publishing what the    *)
(* Content Generator makes of them while run_loop sleeps                   *)
ScnReply ==
    [start |-> HMS(12, 0, 0), ticks |-> 0, floods |-> {},
     restarts |-> 0, downtimes |-> {}, images |-> FALSE,
     manual |-> MaxManual + 2, serial |-> FALSE, news |-> 0, watch |-> TRUE,
     typed |-> FALSE, audit |-> {"reply", "refused"}, faults |-> {}]
(* at noon, restarted up to MaxRestarts times, every item a poll returned  *)
(* remembered until the process ends                                       *)
ScnPolls ==
    [start |-> HMS(12, 0, 0), ticks |-> MaxTicks, floods |-> {},
     restarts |-> MaxRestarts, downtimes |-> {MinIntervalSec}, images |-> FALSE,
     manual |-> 0, serial |-> FALSE, news |-> MaxNews, watch |-> FALSE,
     typed |-> FALSE, audit |-> {"polled", "returned"}, faults |-> {}]
(* inside the evening window, with what publish_post returned and          *)
(* delivered recorded                                                      *)
ScnSend ==
    [start |-> HMS(22, 0, 30), ticks |-> 0, floods |-> {},
     restarts |-> 0, downtimes |-> {}, images |-> FALSE,
     manual |-> 0, serial |-> FALSE, news |-> MaxNews - 1, watch |-> FALSE,
     typed |-> FALSE, audit |-> {"sent", "result", "refused"},
     faults |-> {}]
(* at noon, the operator and another user sending /p, messages and button  *)
(* presses while run_loop sleeps                                           *)
ScnDialog ==
    [start |-> HMS(12, 0, 0), ticks |-> 0, floods |-> {},
     restarts |-> 0, downtimes |-> {}, images |-> FALSE,
     manual |-> MaxUpdates, serial |-> FALSE, news |-> 0, watch |-> FALSE,
     typed |-> FALSE, audit |-> {}, faults |-> {}]
Scenarios == {ScnMorning, ScnEvening, ScnNoon, ScnMidnight}
(* number of status polls an image generation takes *)
ImagePolls == {1}

Tracks == {"morning", "evening"}
Dates == 0..2

----------------------------------------------------------------------------
(* State                                                                   *)

VARIABLES
    (* TelegramChannelBot fields *)
    posts_today, posts_target, reset_time, last_post_time,
    last_price_post_morning, last_price_post_evening,
    published_posts_hashes, published_news_ids, pending_posts,
    (* NewsParser field *)
    processed_message_ids,
    (* files bot_state.json and processed_ids.txt *)
    bot_state_json, processed_ids_txt,
    (* observed period, clock, sleeps of run_loop left, the news channel *)
    scn, now, ticks, channel_feed,
    (* run_loop task: position, wake-up time of its sleep, attempt in flight *)
    rl, wake, att,
    (* command task: publish_post_manual call in flight *)
    man,
    (* observations: what reached the channel, and what happened (polled:   *)
    (* what the last poll returned; returned: the ids of the items the      *)
    (* polls of the running process returned)                               *)
    pubCount, newsPubCount, cycleTimes, priceCount, procPriceCount, overlapped,
    restarts, manualCount, collabFailed, dupLog, polled, returned, outbox

mem == <<posts_today, posts_target, reset_time, last_post_time,
         last_price_post_morning, last_price_post_evening,
         published_posts_hashes, published_news_ids>>
disk == <<bot_state_json, processed_ids_txt>>
loop == <<rl, wake, att>>
pubs == <<pubCount, newsPubCount, cycleTimes, priceCount, procPriceCount>>
obs == <<pubs, overlapped, restarts, manualCount, collabFailed, dupLog, polled, returned,
         outbox>>
vars == <<mem, pending_posts, processed_message_ids, disk, scn, now, ticks,
          channel_feed, loop, man, obs>>

AbsentFile == [exists |-> FALSE]
(* bot_state.json truncated by open(state_file, 'w') and not, or not       *)
(* completely, written by json.dump: json.load raises on it                *)
TornFile == [exists |-> TRUE, torn |-> TRUE]

Idle == [pc |-> "idle", kind |-> "none", content |-> NoText, news_id |-> NoId,
         err |-> "none", image_url |-> NoUrl, statuses |-> NoStatuses]
ManIdle == [pc |-> "idle", content |-> NoText]
(* nothing was marked as published or refused as a duplicate yet *)
EmptyLog == [marked |-> NoText, refused |-> NoText, refused_ids |-> {}]
(* nothing was delivered by publish_post and nothing answered to the       *)
(* operator yet; the cycle track has not called generate_post (gens) or    *)
(* publish_post (attempts) since the last sleep of run_loop, and no        *)
(* generate_post of it returned None (gen_null); run_loop has not called   *)
(* publish_post (result, delivered) and no generated text was rejected as  *)
(* not relevant (rejected); the command task has received no update        *)
(* (update, updates) and run no handler                                    *)
NoUpdate == [kind |-> "none", user |-> 0, forwarded |-> FALSE, media |-> "none",
             text |-> NoText, data |-> "none"]
(* what the reaction generator answered for the last post delivered, the  *)
(* tone found and the text sent                                            *)
NoResponse == [raised |-> FALSE, status_code |-> 0, content |-> NoText]
NoOpinion == [content |-> NoText, emoji |-> "none", response |-> NoResponse,
              text |-> NoText]
EmptyOutbox == [post |-> "none", reply |-> "none", replies |-> 0,
                gens |-> 0, attempts |-> 0, gen_null |-> FALSE,
                result |-> "none", delivered |-> 0, rejected |-> FALSE,
                update |-> NoUpdate, updates |-> 0, handler |-> "none",
                opinion |-> NoOpinion]

----------------------------------------------------------------------------
(* StateStore                                                              *)

isoformat(t) == [iso |-> t]
fromisoformat(s) == s.iso

(* _save_state: the record json.dump writes *)
SavedState(lpt, hashes, ids) ==
    [exists |-> TRUE,
     last_post_time |-> IF lpt # NoTime THEN isoformat(lpt) ELSE [iso |-> NoTime],
     published_posts_hashes |-> hashes,
     published_news_ids |-> ids]

(* what a write of a file may do: complete, raise before the file is       *)
(* touched, or raise after the file was truncated                          *)
WriteOutcomes ==
    {"written"} \cup (IF "write" \in scn.faults THEN {"refused", "torn"} ELSE {})
(* whether a read of a file completes or raises *)
ReadOutcomes == {TRUE} \cup (IF "read" \in scn.faults THEN {FALSE} ELSE {})

(* faulty variant of Saved: published_news_ids is left out of the file *)
SavedWithoutNewsIds(file, outcome, lpt, hashes, ids) ==
    CASE outcome = "written" -> SavedState(lpt, hashes, {})
      [] outcome = "refused" -> file
      [] outcome = "torn" -> TornFile

(* _save_state on file, by outcome of the write *)
Saved(file, outcome, lpt, hashes, ids) ==
    CASE outcome = "written" -> SavedState(lpt, hashes, ids)
      [] outcome = "refused" -> file
      [] outcome = "torn" -> TornFile

(* _load_state: the file is there, open and json.load do not raise *)
Loads(file, read) == file.exists /\ file # TornFile /\ read
(* faulty variant of LoadedLastPostTime: a file that cannot be loaded gives *)
(* the epoch                                                               *)
LoadedLastPostTimeEpoch(file, read) ==
    IF Loads(file, read)
    THEN IF file.last_post_time.iso # NoTime
         THEN fromisoformat(file.last_post_time) ELSE NoTime
    ELSE 0

LoadedLastPostTime(file, read) ==
    IF Loads(file, read) /\ file.last_post_time.iso # NoTime
    THEN fromisoformat(file.last_post_time) ELSE NoTime
(* faulty variant of LoadedHashes: the hashes of the file are not taken    *)
(* over                                                                    *)
LoadedHashesDropped(file, read) == {}

LoadedHashes(file, read) ==
    IF Loads(file, read) THEN file.published_posts_hashes ELSE {}
LoadedNewsIds(file, read) ==
    IF Loads(file, read) THEN file.published_news_ids ELSE {}

(* _load_processed_ids *)
LoadedProcessedIds(file, read) == IF read THEN file ELSE {}

(* TelegramChannelBot.__init__ and NewsParser.__init__ at time t, with     *)
(* bot_state.json as it is found; state_read and ids_read: whether the     *)
(* reads of bot_state.json and processed_ids.txt complete                  *)
Construct(t, state_file, state_read, ids_read) ==
    /\ last_post_time' = LoadedLastPostTime(state_file, state_read)
    /\ posts_today' = 0
    /\ posts_target' = POSTS_PER_DAY
    /\ reset_time' = Midnight(t)
    /\ last_price_post_morning' = NoDate
    /\ last_price_post_evening' = NoDate
    /\ published_posts_hashes' = LoadedHashes(state_file, state_read)
    /\ published_news_ids' = LoadedNewsIds(state_file, state_read)
    /\ pending_posts' = NoText
    /\ processed_message_ids' = LoadedProcessedIds(processed_ids_txt, ids_read)

InitFor(s) ==
    /\ scn = s
    /\ now = s.start
    /\ ticks = s.ticks
    /\ channel_feed = <<>>
    /\ bot_state_json = AbsentFile
    /\ processed_ids_txt = {}
    /\ last_post_time = NoTime
    /\ posts_today = 0
    /\ posts_target = POSTS_PER_DAY
    /\ reset_time = Midnight(now)
    /\ last_price_post_morning = NoDate
    /\ last_price_post_evening = NoDate
    /\ published_posts_hashes = {}
    /\ published_news_ids = {}
    /\ pending_posts = NoText
    /\ processed_message_ids = {}
    /\ rl = "test_connection"
    /\ wake = NoTime
    /\ att = Idle
    /\ man = ManIdle
    /\ pubCount = [h \in Hashes |-> 0]
    /\ newsPubCount = [i \in 1..MaxNews |-> 0]
    /\ cycleTimes = <<NoTime, NoTime>>
    /\ priceCount = [k \in Tracks \X Dates |-> 0]
    /\ procPriceCount = [k \in Tracks \X Dates |-> 0]
    /\ collabFailed = FALSE
    /\ overlapped = FALSE
    /\ restarts = 0
    /\ manualCount = 0
    /\ dupLog = EmptyLog
    /\ polled = <<>>
    /\ returned = {}
    /\ outbox = EmptyOutbox

Init == \E s \in Scenarios : InitFor(s)
InitManual == InitFor(ScnManual) \/ InitFor(ScnManualTicks)
InitQuota == InitFor(ScnQuota)
InitTyped == InitFor(ScnTyped)
InitImage == InitFor(ScnImage)
InitWords == InitFor(ScnWords)
InitReply == InitFor(ScnReply)
InitPolls == InitFor(ScnPolls)
InitSend == InitFor(ScnSend)
InitDialog == InitFor(ScnDialog)
InitStore == InitFor(ScnCrash) \/ InitFor(ScnRead) \/ InitFor(ScnWrite)

----------------------------------------------------------------------------
(* DuplicateGuard                                                          *)

(* the "Пропускаю" warnings: a text refused as a duplicate, news items     *)
(* refused as already used                                                 *)
Rejects(content, news_ids) ==
    dupLog' = [dupLog EXCEPT
                  !.refused = IF "refused" \in scn.audit /\ content # NoText
                              THEN content ELSE @,
                  !.refused_ids = IF "ids" \in scn.audit
                                  THEN @ \cup news_ids ELSE @]

(* the text handed to _mark_as_published *)
Marks(content) ==
    dupLog' = IF "marked" \in scn.audit THEN [dupLog EXCEPT !.marked = content]
              ELSE dupLog

(* the call of the Channel Publisher through which publish_post delivered  *)
(* a post                                                                  *)
Delivered(call) ==
    [outbox EXCEPT !.post = IF "sent" \in scn.audit THEN call ELSE @,
                   !.delivered = IF "result" \in scn.audit THEN @ + 1 ELSE @]
Delivers(call) == outbox' = Delivered(call)

(* _determine_post_tone, from the numbers of negative and positive words   *)
(* found in the post                                                       *)
Clown == "clown"
Fire == "fire"
determine_post_tone(negative_count, positive_count) ==
    IF negative_count >= positive_count THEN Clown ELSE Fire

(* "\n\n{emoji} - {text}" *)
Formatted(emoji, text) == <<"\n", "\n", emoji, " ", "-", " ">> \o text

(* _generate_opinion_text, by what requests.post gave: None when it raised, *)
(* when the status is not 200 and when the text is empty after stripping   *)
(* (the further cleaning of quotes, emoji and punctuation is left out)     *)
generate_opinion_text(emoji, response) ==
    IF response.raised \/ response.status_code # 200 THEN NoText
    ELSE LET generated_text == strip(response.content)
         IN  IF generated_text # NoText THEN Formatted(emoji, generated_text)
             ELSE NoText

FallbackClown == <<"k", "r", "i", "p", "t", "a", " ", "s", "k", "a", "m">>
FallbackFire == <<"z", "a", "k", "u", "p", "i", "l", "s", "y", "a">>

(* faulty variant of add_opinion_text: the fallback reaction is the same   *)
(* for both tones                                                          *)
AddOpinionTextOneFallback(content, emoji, response) ==
    LET opinion_text == generate_opinion_text(emoji, response)
    IN  content \o (IF opinion_text = NoText
                    THEN Formatted(Clown, FallbackClown)
                    ELSE opinion_text)

(* _add_opinion_text for the tone found and the answer of the generator *)
add_opinion_text(content, emoji, response) ==
    LET opinion_text == generate_opinion_text(emoji, response)
    IN  content \o (IF opinion_text = NoText
                    THEN IF emoji = Clown THEN Formatted(Clown, FallbackClown)
                         ELSE Formatted(Fire, FallbackFire)
                    ELSE opinion_text)

(* what requests.post of the reaction generator may give *)
OpinionResponses ==
    IF "result" \in scn.audit
    THEN {[raised |-> TRUE, status_code |-> 0, content |-> NoText],
          [raised |-> FALSE, status_code |-> 500, content |-> NoText],
          [raised |-> FALSE, status_code |-> 200, content |-> NoText],
          [raised |-> FALSE, status_code |-> 200, content |-> <<" ">>],
          [raised |-> FALSE, status_code |-> 200, content |-> <<" ", "o", "k">>]}
    ELSE {NoResponse}
ToneCounts == IF "result" \in scn.audit THEN {0, 1} ELSE {0}

(* the send of the text with the reaction returned: publish_post goes on   *)
(* to return True                                                          *)
ReturnsTrue(call) ==
    \E negative_count \in ToneCounts, positive_count \in ToneCounts,
       response \in OpinionResponses :
        LET emoji == determine_post_tone(negative_count, positive_count)
        IN  outbox' =
                IF "result" \in scn.audit
                THEN [Delivered(call) EXCEPT
                         !.result = "True",
                         !.opinion = [content |-> att.content, emoji |-> emoji,
                                      response |-> response,
                                      text |-> add_opinion_text(att.content, emoji,
                                                                response)]]
                ELSE Delivered(call)

(* the text-only send of an except branch raised: publish_post returns     *)
(* False                                                                   *)
ReturnsFalse ==
    outbox' = [outbox EXCEPT
                  !.result = IF "result" \in scn.audit THEN "False" ELSE @]

(* the answer a handler of the command task sends the operator through    *)
(* edit_message_text or reply_text, and the number of answers so far       *)
Replies(answer) ==
    outbox' = IF "reply" \in scn.audit
              THEN [outbox EXCEPT !.reply = answer, !.replies = @ + 1]
              ELSE outbox

(* faulty variant of is_duplicate: the text itself is looked up, not its   *)
(* hash                                                                    *)
IsDuplicateRaw(content) == content \in published_posts_hashes

is_duplicate(content) == get_post_hash(content) \in published_posts_hashes

(* faulty variant of Published: last_post_time is set for a price post too *)
PublishedAnyKind(content, kind, src_id, news_id, t) ==
    /\ last_post_time' = t
    /\ posts_today' = posts_today + 1
    /\ published_posts_hashes' = published_posts_hashes \cup {get_post_hash(content)}
    /\ published_news_ids' = IF news_id # NoId THEN published_news_ids \cup {news_id}
                             ELSE published_news_ids
    /\ \E outcome \in WriteOutcomes :
          bot_state_json' = Saved(bot_state_json, outcome, last_post_time',
                                  published_posts_hashes', published_news_ids')
    /\ Marks(content)
    /\ pubCount' = [pubCount EXCEPT ![get_post_hash(content)] = @ + 1]
    /\ newsPubCount' = IF src_id # NoId THEN [newsPubCount EXCEPT ![src_id] = @ + 1]
                       ELSE newsPubCount
    /\ cycleTimes' = IF kind = "news" THEN <<cycleTimes[2], t>> ELSE cycleTimes
    /\ priceCount' = IF kind \in Tracks
                     THEN [priceCount EXCEPT ![<<kind, DateOf(t)>>] = @ + 1]
                     ELSE priceCount
    /\ procPriceCount' = IF kind \in Tracks
                         THEN [procPriceCount EXCEPT ![<<kind, DateOf(t)>>] = @ + 1]
                         ELSE procPriceCount

(* faulty variant of Published: a write of bot_state.json that raises      *)
(* undoes the additions to the two sets                                    *)
PublishedUnlessWriteFails(content, kind, src_id, news_id, t) ==
    /\ last_post_time' = IF kind \in Tracks THEN last_post_time ELSE t
    /\ posts_today' = posts_today + 1
    /\ \E outcome \in WriteOutcomes :
          /\ published_posts_hashes' =
                IF outcome = "written"
                THEN published_posts_hashes \cup {get_post_hash(content)}
                ELSE published_posts_hashes
          /\ published_news_ids' =
                IF outcome = "written" /\ news_id # NoId
                THEN published_news_ids \cup {news_id}
                ELSE published_news_ids
          /\ bot_state_json' = Saved(bot_state_json, outcome, last_post_time',
                                     published_posts_hashes', published_news_ids')
    /\ Marks(content)
    /\ pubCount' = [pubCount EXCEPT ![get_post_hash(content)] = @ + 1]
    /\ newsPubCount' = IF src_id # NoId THEN [newsPubCount EXCEPT ![src_id] = @ + 1]
                       ELSE newsPubCount
    /\ cycleTimes' = IF kind = "news" THEN <<cycleTimes[2], t>> ELSE cycleTimes
    /\ priceCount' = IF kind \in Tracks
                     THEN [priceCount EXCEPT ![<<kind, DateOf(t)>>] = @ + 1]
                     ELSE priceCount
    /\ procPriceCount' = IF kind \in Tracks
                         THEN [procPriceCount EXCEPT ![<<kind, DateOf(t)>>] = @ + 1]
                         ELSE procPriceCount

(* _mark_as_published followed by _save_state, with what the channel got.  *)
(* kind is "news", "morning", "evening" or "manual"; src_id the news item  *)
(* the text was generated from; news_id the id handed to                   *)
(* _mark_as_published; t the time datetime.now() returns.                  *)
Published(content, kind, src_id, news_id, t) ==
    /\ last_post_time' = IF kind \in Tracks THEN last_post_time ELSE t
    /\ posts_today' = posts_today + 1
    /\ published_posts_hashes' = published_posts_hashes \cup {get_post_hash(content)}
    /\ published_news_ids' = IF news_id # NoId THEN published_news_ids \cup {news_id}
                             ELSE published_news_ids
    /\ \E outcome \in WriteOutcomes :
          bot_state_json' = Saved(bot_state_json, outcome, last_post_time',
                                  published_posts_hashes', published_news_ids')
    /\ Marks(content)
    /\ pubCount' = [pubCount EXCEPT ![get_post_hash(content)] = @ + 1]
    /\ newsPubCount' = IF src_id # NoId THEN [newsPubCount EXCEPT ![src_id] = @ + 1]
                       ELSE newsPubCount
    /\ cycleTimes' = IF kind = "news" THEN <<cycleTimes[2], t>> ELSE cycleTimes
    /\ priceCount' = IF kind \in Tracks
                     THEN [priceCount EXCEPT ![<<kind, DateOf(t)>>] = @ + 1]
                     ELSE priceCount
    /\ procPriceCount' = IF kind \in Tracks
                         THEN [procPriceCount EXCEPT ![<<kind, DateOf(t)>>] = @ + 1]
                         ELSE procPriceCount

----------------------------------------------------------------------------
(* NewsIngestionTracker                                                    *)

Download == <<"D", "o", "w", "n", "l", "o", "a", "d">>
http == <<"h", "t", "t", "p", ":", "/", "/">>
https == <<"h", "t", "t", "p", "s", ":", "/", "/">>

IsService(text) ==
    \/ startswith(text, Download)
    \/ startswith(text, http) /\ Len(text) < 100
    \/ startswith(text, https) /\ Len(text) < 100

(* faulty variant of Accepted: processed_message_ids is not consulted *)
AcceptedAgain(message, processed) ==
    /\ strip(message.text) # NoText
    /\ ~IsService(strip(message.text))
    /\ is_relevant_news(strip(message.text))

(* the test one message of iter_messages passes to be appended *)
Accepted(message, processed) ==
    /\ message.id \notin processed
    /\ strip(message.text) # NoText
    /\ ~IsService(strip(message.text))
    /\ is_relevant_news(strip(message.text))

Scanned(limit) ==
    SubSeq(channel_feed, 1, IF limit < Len(channel_feed) THEN limit ELSE Len(channel_feed))

(* new_messages after the first k scanned messages *)
NewMessages(limit, k) ==
    LET hit(m) == Accepted(m, processed_message_ids)
        clean(m) == [id |-> m.id, text |-> strip(m.text)]
        found == SelectSeq(SubSeq(Scanned(limit), 1, k), hit)
    IN  [i \in DOMAIN found |-> clean(found[i])]

IdsOf(items) == {items[i].id : i \in DOMAIN items}

(* get_new_relevant_news: the iteration ends normally (k is the number of  *)
(* scanned messages), or the source raises after k messages and [] is      *)
(* returned: a FloodWaitError, slept out for e.seconds, or another         *)
(* exception (seconds = 0).                                                *)
PollOutcomes(limit) ==
    {[k |-> Len(Scanned(limit)), raised |-> FALSE, seconds |-> 0]}
    \cup {[k |-> k, raised |-> TRUE, seconds |-> w] :
              k \in 0..Len(Scanned(limit)), w \in {0} \cup scn.floods}
PollReturn(limit, o) == IF o.raised THEN <<>> ELSE NewMessages(limit, o.k)
(* faulty variant of PollEffect: the ids of the items found are not added  *)
(* to processed_message_ids                                                *)
PollEffectForgetful(limit, o) ==
    /\ processed_message_ids' = processed_message_ids
    /\ processed_ids_txt' = processed_ids_txt
    /\ now' = now + o.seconds
    /\ polled' = IF "polled" \in scn.audit THEN PollReturn(limit, o) ELSE polled
    /\ returned' = IF "returned" \in scn.audit
                   THEN returned \cup IdsOf(PollReturn(limit, o)) ELSE returned

(* faulty variant of PollEffect: processed_message_ids and the file are    *)
(* replaced by the ids of the items found                                  *)
PollEffectReplacing(limit, o) ==
    /\ processed_message_ids' = IdsOf(NewMessages(limit, o.k))
    /\ processed_ids_txt' = IdsOf(NewMessages(limit, o.k))
    /\ now' = now + o.seconds
    /\ polled' = IF "polled" \in scn.audit THEN PollReturn(limit, o) ELSE polled
    /\ returned' = IF "returned" \in scn.audit
                   THEN returned \cup IdsOf(PollReturn(limit, o)) ELSE returned

(* faulty variant of PollEffect: a poll that raises starts the set of      *)
(* processed ids afresh                                                    *)
PollEffectRaisingForgets(limit, o) ==
    /\ processed_message_ids' =
          IF o.raised THEN IdsOf(NewMessages(limit, o.k))
          ELSE processed_message_ids \cup IdsOf(NewMessages(limit, o.k))
    /\ processed_ids_txt' = processed_ids_txt \cup IdsOf(NewMessages(limit, o.k))
    /\ now' = now + o.seconds
    /\ polled' = IF "polled" \in scn.audit THEN PollReturn(limit, o) ELSE polled
    /\ returned' = IF "returned" \in scn.audit
                   THEN returned \cup IdsOf(PollReturn(limit, o)) ELSE returned

(* faulty variant of PollEffect: only the id of the item the tick will     *)
(* attempt is added to processed_message_ids                               *)
PollEffectMarksFirstOnly(limit, o) ==
    /\ processed_message_ids' =
          processed_message_ids
              \cup {NewMessages(limit, o.k)[i].id :
                       i \in DOMAIN NewMessages(limit, o.k) \cap {1}}
    /\ processed_ids_txt' =
          processed_ids_txt
              \cup {NewMessages(limit, o.k)[i].id :
                       i \in DOMAIN NewMessages(limit, o.k) \cap {1}}
    /\ now' = now + o.seconds
    /\ polled' = IF "polled" \in scn.audit THEN PollReturn(limit, o) ELSE polled
    /\ returned' = IF "returned" \in scn.audit
                   THEN returned \cup IdsOf(PollReturn(limit, o)) ELSE returned

(* the ids _save_processed_id gets appended: each append completes or      *)
(* raises                                                                  *)
AppendOutcomes(ids) == IF "write" \in scn.faults THEN SUBSET ids ELSE {ids}
PollEffect(limit, o) ==
    /\ processed_message_ids' = processed_message_ids \cup IdsOf(NewMessages(limit, o.k))
    /\ \E appended \in AppendOutcomes(IdsOf(NewMessages(limit, o.k))) :
          processed_ids_txt' = processed_ids_txt \cup appended
    /\ now' = now + o.seconds
    /\ polled' = IF "polled" \in scn.audit THEN PollReturn(limit, o) ELSE polled
    /\ returned' = IF "returned" \in scn.audit
                   THEN returned \cup IdsOf(PollReturn(limit, o)) ELSE returned

----------------------------------------------------------------------------
(* PublicationScheduler: run_loop and what it awaits                       *)

NextPos(p) ==
    CASE p = "init_morning" -> "init_evening"
      [] p = "init_evening" -> "init_news"
      [] p = "init_news" -> "top"
      [] p = "tick_news" -> "tick_morning"
      [] p = "tick_morning" -> "tick_evening"
      [] p = "tick_evening" -> "top"

InPublishPost == {"image", "send", "fallback"}
Running == rl \notin {"test_connection", "exited"}

(* the call in flight returns to run_loop *)
Return ==
    /\ att' = Idle
    /\ rl' = NextPos(rl)
    /\ wake' = wake

should_post_price_morning ==
    /\ HourOf(now) = PRICE_POST_MORNING_HOUR
    /\ MinuteOf(now) <= WindowLastMinute
    /\ last_price_post_morning # DateOf(now)

(* faulty variant of should_post_price_evening: the date of the last      *)
(* evening post is not consulted                                           *)
ShouldPostPriceEveningAnyDay ==
    /\ HourOf(now) = PRICE_POST_EVENING_HOUR
    /\ MinuteOf(now) <= WindowLastMinute

should_post_price_evening ==
    /\ HourOf(now) = PRICE_POST_EVENING_HOUR
    /\ MinuteOf(now) <= WindowLastMinute
    /\ last_price_post_evening # DateOf(now)

(* faulty variant of TooEarly: the elapsed seconds are compared with the  *)
(* interval in minutes                                                     *)
TooEarlyMinutesAsSeconds ==
    /\ last_post_time # NoTime
    /\ now - last_post_time < (MinIntervalSec - ToleranceSec) \div 60

(* the interval test at the head of check_and_publish_new_news *)
TooEarly ==
    /\ last_post_time # NoTime
    /\ now - last_post_time < MinIntervalSec - ToleranceSec

(* an attempt that ends without a publication leaves these as they were *)
Unpublished ==
    UNCHANGED <<last_post_time, posts_today, published_posts_hashes,
                published_news_ids, last_price_post_morning,
                last_price_post_evening, bot_state_json, pubs, dupLog>>

(* main: test_connection, which polls the news source through                *)
(* get_latest_news(channel, 2), then setup of the handlers and run_loop    *)
TestConnection ==
    /\ rl = "test_connection"
    /\ \E o \in PollOutcomes(TestNewsLimit), deepseek_ok \in BOOLEAN :
        /\ PollEffect(TestNewsLimit, o)
        /\ rl' = IF deepseek_ok THEN "init_morning" ELSE "exited"
        /\ collabFailed' = (collabFailed \/ (scn.watch /\ ~deepseek_ok))
    /\ UNCHANGED <<mem, pending_posts, bot_state_json, scn, ticks, channel_feed,
                   wake, att, man, pubs, overlapped, restarts, manualCount, dupLog,
                   outbox>>

(* run_loop: if should_post_price_...(): generate_and_publish_price up to   *)
(* its first await (the Price Source is read synchronously)                *)
PriceCheck ==
    /\ att = Idle
    /\ rl \in {"init_morning", "tick_morning", "init_evening", "tick_evening"}
    /\ LET track == IF rl \in {"init_morning", "tick_morning"} THEN "morning" ELSE "evening"
           should == IF track = "morning" THEN should_post_price_morning
                     ELSE should_post_price_evening
       IN  IF ~should
           THEN /\ Return
                /\ UNCHANGED collabFailed
           ELSE \E price_data \in BOOLEAN :
                    IF price_data
                    THEN /\ att' = [Idle EXCEPT !.pc = "gen", !.kind = track]
                         /\ UNCHANGED <<rl, wake, collabFailed>>
                    ELSE /\ Return
                         /\ collabFailed' = (collabFailed \/ scn.watch)
    /\ UNCHANGED <<mem, pending_posts, processed_message_ids, disk, now, scn, ticks,
                   channel_feed, man, pubs, overlapped, restarts, manualCount, dupLog,
                   polled, returned, outbox>>

(* check_and_publish_new_news up to its first await *)
NewsCheck ==
    /\ att = Idle
    /\ rl \in {"init_news", "tick_news"}
    /\ IF TooEarly
       THEN Return
       ELSE /\ att' = [Idle EXCEPT !.pc = "poll", !.kind = "news"]
            /\ UNCHANGED <<rl, wake>>
    /\ UNCHANGED <<mem, pending_posts, processed_message_ids, disk, now, scn, ticks,
                   channel_feed, man, obs>>

(* get_new_relevant_news_items returns; the freshest item not yet published *)
(* is handed to the Content Generator                                      *)
PollDone ==
    /\ att.pc = "poll"
    /\ \E o \in PollOutcomes(NewsLimit) :
        LET news_items == PollReturn(NewsLimit, o)
            fresh_news_items ==
                SelectSeq(news_items, LAMBDA item : item.id \notin published_news_ids)
        IN  /\ PollEffect(NewsLimit, o)
            /\ Rejects(NoText, IdsOf(news_items) \cap published_news_ids)
            /\ IF fresh_news_items = <<>>
               THEN Return
               ELSE /\ att' = [att EXCEPT !.pc = "gen", !.news_id = fresh_news_items[1].id]
                    /\ UNCHANGED <<rl, wake>>
            /\ outbox' = IF "calls" \in scn.audit /\ fresh_news_items # <<>>
                         THEN [outbox EXCEPT !.gens = @ + 1] ELSE outbox
    /\ UNCHANGED <<mem, pending_posts, bot_state_json, scn, ticks, channel_feed,
                   man, pubs, overlapped, restarts, manualCount, collabFailed>>

(* faulty variant of PublishPostBegin: last_post_time is set before the    *)
(* send                                                                    *)
PublishPostBeginEager(post_content, start) ==
    /\ att' = [att EXCEPT !.pc = IF start THEN "image" ELSE "send",
                          !.content = post_content]
    /\ overlapped' = (overlapped \/ man.pc = "send")
    /\ last_post_time' = now
    /\ UNCHANGED <<rl, wake, posts_today, posts_target, reset_time,
                   last_price_post_morning, last_price_post_evening,
                   published_posts_hashes, published_news_ids>>

(* publish_post from its duplicate checks up to its first await.  start:   *)
(* generate_image returned a task, so that generate_image_async goes to    *)
(* sleep                                                                   *)
PublishPostBegin(post_content, start) ==
    /\ att' = [att EXCEPT !.pc = IF start THEN "image" ELSE "send",
                          !.content = post_content]
    /\ overlapped' = (overlapped \/ man.pc = "send")
    /\ UNCHANGED <<rl, wake, mem>>

(* faulty variant of PublishPostRefuses: the hash of the text is not       *)
(* looked up                                                               *)
PublishPostRefusesUsedNewsOnly(post_content) ==
    att.news_id # NoId /\ att.news_id \in published_news_ids

(* the two checks at the head of publish_post *)
PublishPostRefuses(post_content) ==
    \/ is_duplicate(post_content)
    \/ att.news_id # NoId /\ att.news_id \in published_news_ids

(* what generate_post gave the cycle track, and whether publish_post was    *)
(* called with it                                                          *)
Counted(post_content) ==
    IF "calls" \in scn.audit /\ att.kind = "news"
    THEN IF post_content = NoText THEN [outbox EXCEPT !.gen_null = TRUE]
         ELSE IF is_relevant_news(post_content)
              THEN [outbox EXCEPT !.attempts = @ + 1]
              ELSE outbox
    ELSE outbox

(* the generated text is rejected as not relevant, or publish_post is      *)
(* called with it: its two checks return False or it goes on to the try    *)
Generated(post_content) ==
    outbox' =
        IF "result" \in scn.audit /\ post_content # NoText
        THEN IF att.kind = "news" /\ ~is_relevant_news(post_content)
             THEN [Counted(post_content) EXCEPT !.rejected = TRUE]
             ELSE [Counted(post_content) EXCEPT
                      !.delivered = 0,
                      !.opinion = NoOpinion,
                      !.result = IF PublishPostRefuses(post_content)
                                 THEN "False" ELSE "none"]
        ELSE Counted(post_content)

(* faulty variant of GenDone: the cycle track calls generate_post once     *)
(* more when it returned None                                              *)
GenDoneRetries ==
    /\ att.pc = "gen"
    /\ \E post_content \in Contents \cup {NoText}, start \in {FALSE, scn.images} :
        /\ IF post_content = NoText /\ att.kind = "news" /\ outbox.gens = 1
           THEN /\ outbox' = [outbox EXCEPT !.gens = @ + 1, !.gen_null = TRUE]
                /\ UNCHANGED <<loop, collabFailed, dupLog, mem, overlapped>>
           ELSE /\ Generated(post_content)
                /\ IF \/ post_content = NoText
                      \/ att.kind = "news" /\ ~is_relevant_news(post_content)
                      \/ PublishPostRefuses(post_content)
                   THEN /\ Return
                        /\ collabFailed' =
                              (collabFailed \/ (scn.watch /\ post_content = NoText))
                        /\ IF \/ post_content = NoText
                              \/ att.kind = "news" /\ ~is_relevant_news(post_content)
                           THEN UNCHANGED dupLog
                           ELSE IF is_duplicate(post_content)
                                THEN Rejects(post_content, {})
                                ELSE Rejects(NoText, {att.news_id})
                        /\ UNCHANGED <<mem, overlapped>>
                   ELSE /\ PublishPostBegin(post_content, start)
                        /\ UNCHANGED <<collabFailed, dupLog>>
    /\ UNCHANGED <<pending_posts, processed_message_ids, disk, now, scn, ticks,
                   channel_feed, man, pubs, restarts, manualCount, polled, returned>>

(* faulty variant of GenDone: the generated text is not tested for         *)
(* relevance                                                               *)
GenDonePublishesAnyText ==
    /\ att.pc = "gen"
    /\ \E post_content \in Contents \cup {NoText}, start \in {FALSE, scn.images} :
        IF \/ post_content = NoText
           \/ PublishPostRefuses(post_content)
        THEN /\ Return
             /\ Generated(post_content)
             /\ collabFailed' = (collabFailed \/ (scn.watch /\ post_content = NoText))
             /\ IF \/ post_content = NoText
                   \/ att.kind = "news" /\ ~is_relevant_news(post_content)
                THEN UNCHANGED dupLog
                ELSE IF is_duplicate(post_content)
                     THEN Rejects(post_content, {})
                     ELSE Rejects(NoText, {att.news_id})
             /\ UNCHANGED <<mem, overlapped>>
        ELSE /\ PublishPostBegin(post_content, start)
             /\ Generated(post_content)
             /\ UNCHANGED <<collabFailed, dupLog>>
    /\ UNCHANGED <<pending_posts, processed_message_ids, disk, now, scn, ticks,
                   channel_feed, man, pubs, restarts, manualCount, polled, returned>>

(* generate_post returns post_content (NoText: None, empty or exception);  *)
(* then the relevance test of the cycle track and publish_post             *)
GenDone ==
    /\ att.pc = "gen"
    /\ \E post_content \in Contents \cup {NoText}, start \in {FALSE, scn.images} :
        IF \/ post_content = NoText
           \/ att.kind = "news" /\ ~is_relevant_news(post_content)
           \/ PublishPostRefuses(post_content)
        THEN /\ Return
             /\ Generated(post_content)
             /\ collabFailed' = (collabFailed \/ (scn.watch /\ post_content = NoText))
             /\ IF \/ post_content = NoText
                   \/ att.kind = "news" /\ ~is_relevant_news(post_content)
                THEN UNCHANGED dupLog
                ELSE IF is_duplicate(post_content)
                     THEN Rejects(post_content, {})
                     ELSE Rejects(NoText, {att.news_id})
             /\ UNCHANGED <<mem, overlapped>>
        ELSE /\ PublishPostBegin(post_content, start)
             /\ Generated(post_content)
             /\ UNCHANGED <<collabFailed, dupLog>>
    /\ UNCHANGED <<pending_posts, processed_message_ids, disk, now, scn, ticks,
                   channel_feed, man, pubs, restarts, manualCount, polled, returned>>

(* what get_task_status gives at one poll: successFlag 0, 1 with a URL in   *)
(* response, 1 without, 2, 3, another or no successFlag, or None (no        *)
(* answer, an answer that is not 200/200, an exception)                    *)
ResultImageUrl == "resultImageUrl"
Statuses == {"generating", "success", "success_without_url", "create_task_failed",
             "generate_failed", "unknown", "unavailable"}

(* faulty variant of KeepsPolling: a failed status is polled again *)
KeepsPollingOnFailure(status) ==
    status \notin {"success", "success_without_url"}

(* the statuses on which the for loop of generate_image_async continues *)
KeepsPolling(status) == status \in {"generating", "unknown", "unavailable"}

(* the for loop of generate_image_async from its iteration attempt (counted *)
(* from 1) on, with statuses[i] the answer to the i-th poll: the number of  *)
(* polls made and the value returned                                       *)
RECURSIVE PollFrom(_, _)
PollFrom(statuses, attempt) ==
    IF attempt > max_attempts
    THEN [polls |-> max_attempts, image_url |-> NoUrl]
    ELSE IF KeepsPolling(statuses[attempt])
         THEN PollFrom(statuses, attempt + 1)
         ELSE [polls |-> attempt,
               image_url |-> IF statuses[attempt] = "success" THEN ResultImageUrl
                             ELSE NoUrl]

generate_image_async(statuses) == PollFrom(statuses, 1)

(* the answers of the status endpoint to the polls of one task: waiting    *)
(* answers of two kinds in turn for the first k polls, then one answer     *)
StatusScript(k, first, second, final) ==
    [i \in 1..max_attempts |->
        IF i > k THEN final ELSE IF i % 2 = 1 THEN first ELSE second]

StatusScripts ==
    IF "image" \in scn.audit
    THEN {StatusScript(k, first, second, final) :
              k \in 0..max_attempts,
              first \in {"generating", "unknown", "unavailable"},
              second \in {"generating", "unknown", "unavailable"},
              final \in Statuses}
    ELSE {StatusScript(polls - 1, "generating", "generating", final) :
              polls \in ImagePolls, final \in {"success", "generate_failed"}}

(* faulty variant of ImageDone: without an image publish_post gives up *)
ImageDoneGivesUp ==
    /\ att.pc = "image"
    /\ \E statuses \in StatusScripts :
        /\ now' = now + generate_image_async(statuses).polls * ImagePollSec
        /\ IF generate_image_async(statuses).image_url = NoUrl
           THEN /\ att' = Idle
                /\ rl' = NextPos(rl)
           ELSE /\ att' = [att EXCEPT !.pc = "send",
                                      !.image_url = ResultImageUrl,
                                      !.statuses = statuses]
                /\ rl' = rl
    /\ UNCHANGED <<mem, pending_posts, processed_message_ids, disk, scn, ticks,
                   channel_feed, wake, man, obs>>

(* generate_image_async returns after its status polls, with or without    *)
(* an image                                                                *)
ImageDone ==
    /\ att.pc = "image"
    /\ \E statuses \in StatusScripts :
        /\ now' = now + generate_image_async(statuses).polls * ImagePollSec
        /\ att' = [att EXCEPT !.pc = "send",
                              !.image_url = generate_image_async(statuses).image_url,
                              !.statuses = statuses]
    /\ UNCHANGED <<mem, pending_posts, processed_message_ids, disk, scn, ticks,
                   channel_feed, rl, wake, man, obs>>

(* after publish_post returned True in generate_and_publish_price *)
PriceDates(kind, t) ==
    /\ last_price_post_morning' =
          IF kind = "morning" THEN DateOf(t) ELSE last_price_post_morning
    /\ last_price_post_evening' =
          IF kind = "evening" THEN DateOf(t) ELSE last_price_post_evening

(* faulty variant of SendDone: a send that raises has delivered the        *)
(* message                                                                 *)
SendDoneDeliversThenRaises ==
    /\ att.pc = "send"
    /\ \E ok \in BOOLEAN :
        IF ok
        THEN /\ Published(att.content, att.kind, att.news_id, att.news_id, now)
             /\ PriceDates(att.kind, now)
             /\ ReturnsTrue(IF att.image_url # NoUrl THEN "send_photo"
                            ELSE "send_message")
             /\ Return
             /\ UNCHANGED collabFailed
        ELSE /\ \E outcome \in {"TelegramError", "Exception"} :
                    att' = [att EXCEPT !.pc = "fallback", !.err = outcome]
             /\ collabFailed' = (collabFailed \/ scn.watch)
             /\ Unpublished
             /\ Delivers("send_message")
             /\ UNCHANGED <<rl, wake>>
    /\ UNCHANGED <<posts_target, reset_time, pending_posts, processed_message_ids,
                   processed_ids_txt, now, scn, ticks, channel_feed, man, overlapped,
                   restarts, manualCount, polled, returned>>

(* send_photo / send_message of publish_post returns or raises *)
SendDone ==
    /\ att.pc = "send"
    /\ \E ok \in BOOLEAN :
        IF ok
        THEN /\ Published(att.content, att.kind, att.news_id, att.news_id, now)
             /\ PriceDates(att.kind, now)
             /\ ReturnsTrue(IF att.image_url # NoUrl THEN "send_photo"
                            ELSE "send_message")
             /\ Return
             /\ UNCHANGED collabFailed
        ELSE /\ \E outcome \in {"TelegramError", "Exception"} :
                    att' = [att EXCEPT !.pc = "fallback", !.err = outcome]
             /\ collabFailed' = (collabFailed \/ scn.watch)
             /\ Unpublished
             /\ UNCHANGED <<rl, wake, outbox>>
    /\ UNCHANGED <<posts_target, reset_time, pending_posts, processed_message_ids,
                   processed_ids_txt, now, scn, ticks, channel_feed, man, overlapped,
                   restarts, manualCount, polled, returned>>

(* faulty variant of FallbackDone: the exception of a failing text-only    *)
(* send leaves publish_post and run_loop                                   *)
FallbackDoneRaises ==
    /\ att.pc = "fallback"
    /\ \E ok \in BOOLEAN :
        IF ok
        THEN /\ Published(att.content, att.kind, att.news_id,
                          IF att.err = "TelegramError" THEN att.news_id ELSE NoId, now)
             /\ PriceDates(att.kind, now)
             /\ ReturnsTrue("fallback_send_message")
             /\ Return
        ELSE /\ Unpublished
             /\ att' = Idle
             /\ rl' = "exited"
             /\ UNCHANGED <<wake, outbox>>
    /\ UNCHANGED <<posts_target, reset_time, pending_posts, processed_message_ids,
                   processed_ids_txt, now, scn, ticks, channel_feed, man, overlapped,
                   restarts, manualCount, collabFailed, polled, returned>>

(* the text-only send_message of the except branches returns or raises *)
FallbackDone ==
    /\ att.pc = "fallback"
    /\ \E ok \in BOOLEAN :
        IF ok
        THEN /\ Published(att.content, att.kind, att.news_id,
                          IF att.err = "TelegramError" THEN att.news_id ELSE NoId, now)
             /\ PriceDates(att.kind, now)
             /\ ReturnsTrue("fallback_send_message")
        ELSE Unpublished /\ ReturnsFalse
    /\ Return
    /\ UNCHANGED <<posts_target, reset_time, pending_posts, processed_message_ids,
                   processed_ids_txt, now, scn, ticks, channel_feed, man, overlapped,
                   restarts, manualCount, collabFailed, polled, returned>>

(* head of the while loop: choice of check_interval, asyncio.sleep begins *)
check_interval ==
    LET is_near_morning_time ==
            \/ HourOf(now) = PRICE_POST_MORNING_HOUR - 1 /\ MinuteOf(now) >= NearFirstMinute
            \/ HourOf(now) = PRICE_POST_MORNING_HOUR /\ MinuteOf(now) <= WindowLastMinute
        is_near_evening_time ==
            \/ HourOf(now) = PRICE_POST_EVENING_HOUR - 1 /\ MinuteOf(now) >= NearFirstMinute
            \/ HourOf(now) = PRICE_POST_EVENING_HOUR /\ MinuteOf(now) <= WindowLastMinute
    IN  IF is_near_morning_time \/ is_near_evening_time
        THEN NearCheckInterval ELSE FarCheckInterval

LoopTop ==
    /\ rl = "top"
    /\ rl' = "sleeping"
    /\ wake' = now + check_interval
    /\ UNCHANGED <<mem, pending_posts, processed_message_ids, disk, now, scn, ticks,
                   channel_feed, att, man, obs>>

(* asyncio.sleep(check_interval) returns *)
Wake ==
    /\ rl = "sleeping"
    /\ ticks > 0
    /\ ticks' = ticks - 1
    /\ now' = wake
    /\ rl' = "tick_news"
    /\ wake' = NoTime
    /\ outbox' = [outbox EXCEPT !.gens = 0, !.attempts = 0, !.gen_null = FALSE]
    /\ UNCHANGED <<mem, pending_posts, processed_message_ids, disk, scn,
                   channel_feed, att, man, pubs, overlapped, restarts, manualCount,
                   collabFailed, dupLog, polled, returned>>

----------------------------------------------------------------------------
(* The news channel, the operator and the host                             *)

(* a message is posted in the news channel; the channel is read by polls  *)
(* only, so it is enough to let messages arrive right before a poll       *)
NewsArrives ==
    /\ rl = "test_connection" \/ att.pc = "poll"
    /\ Len(channel_feed) < scn.news
    /\ \E text \in IF "words" \in scn.audit THEN WordTexts ELSE NewsTexts :
        channel_feed' = <<[id |-> Len(channel_feed) + 1, text |-> text]>> \o channel_feed
    /\ UNCHANGED <<mem, pending_posts, processed_message_ids, disk, now, scn, ticks,
                   loop, man, obs>>

(* the texts the handlers of /p leave in pending_posts *)
ManualTexts ==
    IF scn.serial THEN {<<ToString(manualCount)>>}
    ELSE IF scn.typed THEN TypedTexts ELSE Contents

(* handle_forwarded_message / skip_analysis_: generate_post_from_text      *)
(* returns generated_text (NoText: None, empty or exception); without a    *)
(* text the operator is told so and the attempt is over, with one the      *)
(* preview is shown                                                        *)
ManualGenerate ==
    /\ Running
    /\ man = ManIdle
    /\ "reply" \in scn.audit
    /\ pending_posts = NoText
    /\ manualCount < scn.manual
    /\ \E generated_text \in ManualTexts \cup {NoText} :
        /\ pending_posts' = generated_text
        /\ IF generated_text = NoText
           THEN /\ Replies("generation_error")
                /\ manualCount' = manualCount + 1
                /\ collabFailed' = (collabFailed \/ scn.watch)
           ELSE /\ Replies("preview")
                /\ UNCHANGED <<manualCount, collabFailed>>
    /\ UNCHANGED <<mem, processed_message_ids, disk, now, scn, ticks, channel_feed,
                   loop, man, pubs, overlapped, restarts, dupLog, polled, returned>>

(* generated_text of pending_posts when a publish_ button is pressed *)
PendingTexts ==
    IF "reply" \in scn.audit THEN {pending_posts} \ {NoText} ELSE ManualTexts

(* faulty variant of ManualPublish: a duplicate is dropped without an      *)
(* answer                                                                  *)
ManualPublishSilentOnDuplicate ==
    /\ Running
    /\ man = ManIdle
    /\ manualCount < scn.manual
    /\ manualCount' = manualCount + 1
    /\ \E generated_text \in PendingTexts :
        IF is_duplicate(generated_text)
        THEN /\ pending_posts' = NoText
             /\ Rejects(generated_text, {})
             /\ UNCHANGED <<man, overlapped, outbox>>
        ELSE /\ man' = [pc |-> "send", content |-> generated_text]
             /\ overlapped' = (overlapped \/ att.pc \in InPublishPost)
             /\ pending_posts' = generated_text
             /\ UNCHANGED <<dupLog, outbox>>
    /\ UNCHANGED <<mem, processed_message_ids, disk, now, scn, ticks, channel_feed,
                   loop, pubs, restarts, collabFailed, polled, returned>>

(* handle_callback_query, publish_...: the operator publishes the text the *)
(* handlers of /p left in pending_posts; publish_post_manual up to its     *)
(* await                                                                   *)
ManualPublish ==
    /\ Running
    /\ man = ManIdle
    /\ manualCount < scn.manual
    /\ manualCount' = manualCount + 1
    /\ \E generated_text \in PendingTexts :
        IF is_duplicate(generated_text)
        THEN /\ pending_posts' = NoText
             /\ Rejects(generated_text, {})
             /\ Replies("publication_error")
             /\ UNCHANGED <<man, overlapped>>
        ELSE /\ man' = [pc |-> "send", content |-> generated_text]
             /\ overlapped' = (overlapped \/ att.pc \in InPublishPost)
             /\ pending_posts' = generated_text
             /\ UNCHANGED <<dupLog, outbox>>
    /\ UNCHANGED <<mem, processed_message_ids, disk, now, scn, ticks, channel_feed,
                   loop, pubs, restarts, collabFailed, polled, returned>>

(* send_photo / send_message of publish_post_manual returns or raises *)
ManualSendDone ==
    /\ man.pc = "send"
    /\ \E ok \in BOOLEAN :
        IF ok
        THEN /\ Published(man.content, "manual", NoId, NoId, now)
             /\ Replies("published")
             /\ UNCHANGED <<last_price_post_morning, last_price_post_evening,
                            collabFailed>>
        ELSE /\ Unpublished
             /\ Replies("publication_error")
             /\ collabFailed' = (collabFailed \/ scn.watch)
    /\ man' = ManIdle
    /\ pending_posts' = NoText
    /\ UNCHANGED <<posts_target, reset_time, processed_message_ids,
                   processed_ids_txt, now, scn, ticks, channel_feed, loop, overlapped,
                   restarts, manualCount, polled, returned>>

(* the process is stopped and started again: main() from the top *)
Restart ==
    /\ restarts < scn.restarts
    /\ rl \in {"sleeping", "exited"}
    /\ man = ManIdle
    /\ \E down \in scn.downtimes, state_read \in ReadOutcomes, ids_read \in ReadOutcomes :
        /\ now' = now + down
        /\ Construct(now', bot_state_json, state_read, ids_read)
    /\ rl' = "test_connection"
    /\ wake' = NoTime
    /\ att' = Idle
    /\ man' = ManIdle
    /\ restarts' = restarts + 1
    /\ procPriceCount' = [k \in Tracks \X Dates |-> 0]
    /\ returned' = {}
    /\ UNCHANGED <<disk, scn, ticks, channel_feed, pubCount, newsPubCount, cycleTimes,
                   priceCount, overlapped, manualCount, collabFailed, dupLog, polled,
                   outbox>>

(* the process dies inside _save_state, called by _mark_as_published after *)
(* a send of publish_post returned, and is started again.  The file is     *)
(* left as it was (open not reached), truncated or partly written, or      *)
(* completely written.                                                     *)
CrashInSave ==
    /\ "crash" \in scn.faults
    /\ restarts < scn.restarts
    /\ att.pc \in {"send", "fallback"}
    /\ man = ManIdle
    /\ LET lpt == IF att.kind \in Tracks THEN last_post_time ELSE now
           news_id == IF att.err = "Exception" THEN NoId ELSE att.news_id
           hashes == published_posts_hashes \cup {get_post_hash(att.content)}
           ids == IF news_id # NoId THEN published_news_ids \cup {news_id}
                  ELSE published_news_ids
       IN  \E left \in {"refused", "torn", "written"}, down \in scn.downtimes,
              state_read \in ReadOutcomes, ids_read \in ReadOutcomes :
               /\ bot_state_json' = Saved(bot_state_json, left, lpt, hashes, ids)
               /\ now' = now + down
               /\ Construct(now', bot_state_json', state_read, ids_read)
    /\ Marks(att.content)
    /\ Delivers(IF att.pc = "fallback" THEN "fallback_send_message"
                ELSE IF att.image_url # NoUrl THEN "send_photo" ELSE "send_message")
    /\ pubCount' = [pubCount EXCEPT ![get_post_hash(att.content)] = @ + 1]
    /\ newsPubCount' = IF att.news_id # NoId
                       THEN [newsPubCount EXCEPT ![att.news_id] = @ + 1]
                       ELSE newsPubCount
    /\ cycleTimes' = IF att.kind = "news" THEN <<cycleTimes[2], now>> ELSE cycleTimes
    /\ priceCount' = IF att.kind \in Tracks
                     THEN [priceCount EXCEPT ![<<att.kind, DateOf(now)>>] = @ + 1]
                     ELSE priceCount
    /\ procPriceCount' = [k \in Tracks \X Dates |-> 0]
    /\ rl' = "test_connection"
    /\ wake' = NoTime
    /\ att' = Idle
    /\ restarts' = restarts + 1
    /\ returned' = {}
    /\ UNCHANGED <<processed_ids_txt, scn, ticks, channel_feed, man, overlapped,
                   manualCount, collabFailed, polled>>

Next ==
    \/ TestConnection
    \/ PriceCheck
    \/ NewsCheck
    \/ PollDone
    \/ GenDone
    \/ ImageDone
    \/ SendDone
    \/ FallbackDone
    \/ LoopTop
    \/ Wake
    \/ NewsArrives
    \/ Restart

Spec == Init /\ [][Next]_vars

(* the morning scenario with one message waiting in the news channel *)
ScnLive == [ScnMorning EXCEPT !.news = 1]

(* run_loop on its own from a minute before the morning window, every      *)
(* awaited call returning in the end and the event loop running the task   *)
(* whenever it is ready.                                                   *)
InitLive == InitFor(ScnLive)

LoopStep ==
    \/ TestConnection
    \/ PriceCheck
    \/ NewsCheck
    \/ PollDone
    \/ GenDone
    \/ ImageDone
    \/ SendDone
    \/ FallbackDone
    \/ LoopTop
    \/ Wake

NextLive ==
    \/ LoopStep
    \/ NewsArrives

SpecLive == InitLive /\ [][NextLive]_vars /\ WF_vars(LoopStep)

(* The scheduled path together with the command task.  The command task   *)
(* takes no time of the clock, and a manual publication whose start reads  *)
(* published_posts_hashes commutes with the steps of run_loop outside      *)
(* publish_post; so it is enough to let run_loop move, while a manual send *)
(* is in flight, only inside publish_post.                                 *)
LoopAlone ==
    /\ man = ManIdle
    /\ Next

LoopInPublishPost ==
    /\ man # ManIdle
    /\ ImageDone \/ SendDone \/ FallbackDone

NextManual ==
    \/ LoopAlone
    \/ LoopInPublishPost
    \/ ManualPublish
    \/ ManualSendDone

SpecManual == InitManual /\ [][NextManual]_vars

(* The scheduled path with a day of manual publications made in one go     *)
(* while run_loop sleeps for the first time; every manual send succeeds.   *)
QuotaLoop ==
    /\ man = ManIdle
    /\ manualCount \in {0, scn.manual}
    /\ \/ TestConnection
       \/ PriceCheck
       \/ NewsCheck
       \/ PollDone
       \/ GenDone
       \/ SendDone
       \/ FallbackDone
       \/ LoopTop
       \/ Wake
       \/ NewsArrives

QuotaManual ==
    \/ /\ rl = "sleeping"
       /\ ticks = scn.ticks
       /\ ManualPublish
    \/ /\ ManualSendDone
       /\ posts_today' > posts_today

NextQuota ==
    \/ QuotaLoop
    \/ QuotaManual

SpecQuota == InitQuota /\ [][NextQuota]_vars

(* The start of the process, then the operator publishing typed texts      *)
(* while run_loop sleeps.                                                  *)
TypedLoop ==
    /\ man = ManIdle
    /\ \/ TestConnection
       \/ PriceCheck
       \/ NewsCheck
       \/ PollDone
       \/ LoopTop

TypedManual ==
    \/ /\ rl = "sleeping"
       /\ ManualPublish
    \/ ManualSendDone

NextTyped ==
    \/ TypedLoop
    \/ TypedManual

SpecTyped == InitTyped /\ [][NextTyped]_vars

(* The start of the process, then the operator forwarding texts and        *)
(* publishing the generated posts while run_loop sleeps.                   *)
NextReply ==
    \/ TypedLoop
    \/ /\ rl = "sleeping"
       /\ ManualGenerate
    \/ TypedManual

SpecReply == InitReply /\ [][NextReply]_vars

(* The start of the process up to the poll of the first news check, with   *)
(* a message of the word texts in the news channel.                        *)
NextWords ==
    \/ TestConnection
    \/ PriceCheck
    \/ NewsCheck
    \/ PollDone
    \/ LoopTop
    \/ NewsArrives

SpecWords == InitWords /\ [][NextWords]_vars

(* The start of the process up to the first sleep of run_loop, with the    *)
(* posts of the start illustrated by the Image Generator.                  *)
NextImage ==
    \/ TestConnection
    \/ PriceCheck
    \/ NewsCheck
    \/ PollDone
    \/ GenDone
    \/ ImageDone
    \/ SendDone
    \/ FallbackDone
    \/ LoopTop
    \/ NewsArrives

SpecImage == InitImage /\ [][NextImage]_vars

(* The scheduled path, without image tasks, on a file system that may      *)
(* fail, with the process dying inside a save.                             *)
NextStore ==
    \/ TestConnection
    \/ PriceCheck
    \/ NewsCheck
    \/ PollDone
    \/ GenDone
    \/ SendDone
    \/ FallbackDone
    \/ LoopTop
    \/ Wake
    \/ NewsArrives
    \/ Restart
    \/ CrashInSave

SpecStore == InitStore /\ [][NextStore]_vars

(* the loop polling over a restart                                         *)
NextPolls ==
    \/ TestConnection
    \/ PriceCheck
    \/ NewsCheck
    \/ PollDone
    \/ GenDone
    \/ SendDone
    \/ FallbackDone
    \/ LoopTop
    \/ Wake
    \/ NewsArrives
    \/ Restart

SpecPolls == InitPolls /\ [][NextPolls]_vars

(* the loop up to its first sleep, with the results of publish_post        *)
NextSend ==
    \/ TestConnection
    \/ PriceCheck
    \/ NewsCheck
    \/ PollDone
    \/ GenDone
    \/ SendDone
    \/ FallbackDone
    \/ LoopTop
    \/ NewsArrives

SpecSend == InitSend /\ [][NextSend]_vars

----------------------------------------------------------------------------
(* Properties                                                              *)

RECURSIVE SumOver(_, _)
SumOver(f, keys) ==
    IF keys = {} THEN 0
    ELSE LET k == CHOOSE x \in keys : TRUE
         IN  f[k] + SumOver(f, keys \ {k})
Total(f) == SumOver(f, DOMAIN f)

(* publications made through publish_post_manual *)
ManualPublications == Total(pubCount) - Total(newsPubCount) - Total(priceCount)

(* the price window of a track on the day of t *)
WindowHour(track) ==
    IF track = "morning" THEN PRICE_POST_MORNING_HOUR ELSE PRICE_POST_EVENING_HOUR
WindowOpens(track, t) == Midnight(t) + HMS(WindowHour(track), 0, 0)
WindowCloses(track, t) == Midnight(t) + HMS(WindowHour(track), WindowLastMinute, 59)

(* C1: when the publication attempts of the cycle track, the price track   *)
(* and the manual path run one at a time, no two successful publications   *)
(* have the same normalized hash, restarts that reload bot_state.json      *)
(* included.                                                               *)
C1_NoTwoPublicationsShareHash ==
    ~overlapped => \A h \in Hashes : pubCount[h] <= 1

(* a cycle post, a manual post and, after a restart, a price post went out *)
(* one at a time                                                           *)
C1_Witness ==
    /\ ~overlapped
    /\ restarts > 0
    /\ cycleTimes[2] # NoTime
    /\ ManualPublications > 0
    /\ \E k \in DOMAIN procPriceCount : procPriceCount[k] > 0

(* C2: a news item is the source of at most one successful publication.    *)
C2_OnePublicationPerNewsItem ==
    \A i \in DOMAIN newsPubCount : newsPubCount[i] <= 1

(* an item went out through the text-only fallback that does not record    *)
(* its id, and the poll after a restart did not offer it again             *)
C2_Witness ==
    /\ restarts > 0
    /\ rl = "top"
    /\ ~TooEarly
    /\ \E i \in DOMAIN newsPubCount :
          newsPubCount[i] = 1 /\ i \notin published_news_ids

(* C3 as stated: two consecutive cycle publications are at least the       *)
(* minimum interval apart.                                                 *)
C3_MinimumInterval ==
    cycleTimes[1] # NoTime => cycleTimes[2] - cycleTimes[1] >= MinIntervalSec

(* C3 amended: two consecutive cycle publications are at least the minimum *)
(* interval less the 0.1 minute the interval test tolerates apart.         *)
C3_MinimumIntervalLessTolerance ==
    cycleTimes[1] # NoTime =>
        cycleTimes[2] - cycleTimes[1] >= MinIntervalSec - ToleranceSec

(* two cycle publications closer than the minimum interval *)
C3_Witness ==
    /\ cycleTimes[1] # NoTime
    /\ cycleTimes[2] - cycleTimes[1] < MinIntervalSec

(* C4: within one process, at most one morning and at most one evening     *)
(* price post is published per calendar day.                               *)
C4_OnePricePostPerDayInProcess ==
    \A k \in DOMAIN procPriceCount : procPriceCount[k] <= 1

(* run_loop is about to test the evening window, inside it, with today's   *)
(* evening post already made by this process                               *)
C4_Witness ==
    /\ rl = "tick_evening"
    /\ att = Idle
    /\ HourOf(now) = PRICE_POST_EVENING_HOUR
    /\ MinuteOf(now) <= WindowLastMinute
    /\ procPriceCount[<<"evening", DateOf(now)>>] = 1

(* C5: on a day run_loop runs from before a price window until after it,   *)
(* with the Price Source, the Content Generator and the Channel Publisher  *)
(* never failing, the price post of that window is published.              *)
C5_PricePostEveryWindow ==
    \A track \in Tracks :
        (/\ restarts = 0
         /\ ~collabFailed
         /\ scn.watch
         /\ rl = "sleeping"
         /\ scn.start < WindowOpens(track, now)
         /\ now > WindowCloses(track, now))
        => priceCount[<<track, DateOf(now)>>] >= 1

(* C6: at most one morning and at most one evening price post per calendar *)
(* day, restarts included.                                                 *)
C6_OnePricePostPerDayAcrossRestarts ==
    \A k \in DOMAIN priceCount : priceCount[k] <= 1

(* C7: posts_today goes back to 0 only together with reset_time moving to  *)
(* a new day: not on a restart in the middle of a day.                     *)
C7_ZeroedOnlyAtDayBoundary ==
    [][posts_today' < posts_today => reset_time' > reset_time]_vars

(* C8: when the tick has found the cycle track eligible, the daily reset   *)
(* has been applied: reset_time is the midnight of the current day.        *)
C8_ResetBeforeEligibility ==
    att.pc = "poll" => now < reset_time + DaySec

(* C9: no cycle publication is made while posts_today >= posts_target.     *)
C9_NoCyclePublicationOverQuota ==
    [][cycleTimes' # cycleTimes => posts_today < posts_target]_vars

(* C10: a step of a cycle or price attempt that publishes nothing leaves   *)
(* last_post_time, posts_today, the price dates, the hashes and the news   *)
(* ids as they were.                                                       *)
C10_FailedAttemptChangesNothing ==
    [][(pubCount' = pubCount /\ restarts' = restarts) =>
          UNCHANGED <<last_post_time, posts_today, last_price_post_morning,
                      last_price_post_evening, published_posts_hashes,
                      published_news_ids>>]_vars

(* an attempt has failed on a collaborator and nothing was ever published  *)
C10_Witness ==
    /\ collabFailed
    /\ rl = "top"
    /\ Total(pubCount) = 0
    /\ posts_today = 0
    /\ last_post_time = NoTime
    /\ published_posts_hashes = {}

(* C11: a step that publishes a price post, through the first send or      *)
(* through either text-only fallback, leaves last_post_time as it was.     *)
C11_PricePostKeepsLastPostTime ==
    [][priceCount' # priceCount => last_post_time' = last_post_time]_vars

(* the morning price post went out inside its window, less than the        *)
(* minimum interval after a cycle post whose time last_post_time still     *)
(* holds                                                                   *)
C11_Witness ==
    /\ priceCount[<<"morning", DateOf(now)>>] = 1
    /\ last_post_time # NoTime
    /\ last_post_time = cycleTimes[2]
    /\ last_post_time < WindowOpens("morning", now)
    /\ now - last_post_time < MinIntervalSec - ToleranceSec

(* two characters are the same letter in either case, or the same          *)
(* character                                                               *)
SameLetter(c, d) ==
    \/ c = d
    \/ \E i \in DOMAIN UpperChars : {c, d} = {UpperChars[i], LowerChars[i]}

IsBlank(t) == \A i \in DOMAIN t : t[i] \in Whitespace

(* t and u, neither starting with whitespace, are the same words in the    *)
(* same order: letter by letter up to case, run of whitespace by run of    *)
(* whitespace, up to trailing whitespace                                   *)
RECURSIVE SameWords(_, _)
SameWords(t, u) ==
    IF t = <<>> \/ u = <<>> THEN IsBlank(t) /\ IsBlank(u)
    ELSE IF Head(t) \in Whitespace /\ Head(u) \in Whitespace
         THEN SameWords(lstrip(t), lstrip(u))
    ELSE IF Head(t) \in Whitespace \/ Head(u) \in Whitespace
         THEN IsBlank(t) /\ IsBlank(u)
    ELSE SameLetter(Head(t), Head(u)) /\ SameWords(Tail(t), Tail(u))

DifferOnlyInCaseAndWhitespace(t, u) == SameWords(lstrip(t), lstrip(u))

(* the typed texts that differ from a typed text only in that way *)
VariantsOf == [u \in TypedTexts |->
                  {t \in TypedTexts : DifferOnlyInCaseAndWhitespace(t, u)}]

C13_RejectedBeforeExternalCalls ==
    [][/\ (att.pc = "gen" /\ att'.pc \in {"image", "send"}) =>
             /\ ~is_duplicate(att'.content)
             /\ att'.news_id \notin published_news_ids
       /\ (att.pc = "poll" /\ att'.pc = "gen") =>
             att'.news_id \notin published_news_ids
       /\ (man.pc = "idle" /\ man'.pc = "send") =>
             ~is_duplicate(man'.content)]_vars

(* a text was refused as a duplicate and a polled news item as used, and   *)
(* no call is in flight                                                    *)
C13_Witness ==
    /\ dupLog.refused # NoText
    /\ dupLog.refused_ids # {}
    /\ att = Idle
    /\ rl = "top"

(* a call of get_new_relevant_news returns: from check_and_publish_new_news *)
(* or from test_connection                                                 *)
PollReturns ==
    \/ att.pc = "poll" /\ att'.pc # "poll"
    \/ rl = "test_connection" /\ rl' \in {"init_morning", "exited"}

C15_SeenIdsOnlyGrow ==
    [][/\ restarts' = restarts => processed_message_ids \subseteq processed_message_ids'
       /\ processed_ids_txt \subseteq processed_ids_txt']_vars

(* ids were marked by a poll that was then rate-limited, and the process   *)
(* has slept the FloodWait out and gone on                                 *)
C15_Witness ==
    /\ processed_message_ids # {}
    /\ processed_ids_txt = processed_message_ids
    /\ restarts = 0
    /\ \E w \in scn.floods : now >= scn.start + w
    /\ rl = "sleeping"

(* the process has just been constructed with the defaults of _load_state *)
StartsFromDefaults ==
    /\ last_post_time = NoTime
    /\ published_posts_hashes = {}
    /\ published_news_ids = {}

(* C16: every start of the process completes: with bot_state.json missing  *)
(* or unparsable it starts with last_post_time None and both sets empty;   *)
(* otherwise with the values of the file or, when the read raises, with    *)
(* those defaults; and processed_message_ids starts as the ids of          *)
(* processed_ids.txt or, when the read raises, empty.                      *)
C16_LoadNeverFails ==
    [][restarts' # restarts =>
          /\ rl' = "test_connection"
          /\ \/ StartsFromDefaults'
             \/ /\ bot_state_json'.exists
                /\ bot_state_json' # TornFile
                /\ last_post_time' = bot_state_json'.last_post_time.iso
                /\ published_posts_hashes' = bot_state_json'.published_posts_hashes
                /\ published_news_ids' = bot_state_json'.published_news_ids
          /\ processed_message_ids' \in {{}, processed_ids_txt'}]_vars

(* the process has started from the defaults on an unparsable              *)
(* bot_state.json, with posts in the channel                               *)
C16_Witness ==
    /\ restarts > 0
    /\ rl = "test_connection"
    /\ bot_state_json = TornFile
    /\ StartsFromDefaults
    /\ Total(pubCount) > 0

(* C17: in a process whose writes of bot_state.json and processed_ids.txt  *)
(* may raise, every publication is in published_posts_hashes and was       *)
(* reported as made (the price post has set its date), every item a poll   *)
(* returned is in processed_message_ids, and no hash and no news item is   *)
(* published twice.                                                        *)
C17_WriteFailureKeepsMemory ==
    restarts = 0 =>
        /\ \A h \in Hashes : pubCount[h] > 0 => h \in published_posts_hashes
        /\ \A h \in Hashes : pubCount[h] <= 1
        /\ \A i \in DOMAIN newsPubCount : newsPubCount[i] <= 1
        /\ priceCount[<<"morning", DateOf(now)>>] > 0 =>
               last_price_post_morning = DateOf(now)
        /\ priceCount[<<"evening", DateOf(now)>>] > 0 =>
               last_price_post_evening = DateOf(now)
        /\ IdsOf(polled) \subseteq processed_message_ids
        /\ att.news_id # NoId => att.news_id \in processed_message_ids

(* the write of bot_state.json failed after a price post and the append to *)
(* processed_ids.txt failed in a poll that returned its item; the text     *)
(* generated from the item was then refused as a duplicate of the post     *)
C17_Witness ==
    /\ restarts = 0
    /\ Total(priceCount) = 1
    /\ LoadedHashes(bot_state_json, TRUE) # published_posts_hashes
    /\ polled # <<>>
    /\ IdsOf(polled) \cap processed_ids_txt = {}
    /\ dupLog.refused # NoText
    /\ is_duplicate(dupLog.refused)
    /\ rl = "top"

(* C18: bot_state.json changes only in a step that publishes one post, and *)
(* every step that publishes a post (cycle, price or manual) leaves a file *)
(* from which _load_state reads the last_post_time, the hashes and the     *)
(* news ids the process then holds.                                        *)
C18_SnapshotWrittenOnPublishOnly ==
    [][/\ bot_state_json' # bot_state_json =>
             Total(pubCount') = Total(pubCount) + 1
       /\ Total(pubCount') # Total(pubCount) =>
             /\ Total(pubCount') = Total(pubCount) + 1
             /\ bot_state_json'.exists
             /\ LoadedLastPostTime(bot_state_json', TRUE) = last_post_time'
             /\ LoadedHashes(bot_state_json', TRUE) = published_posts_hashes'
             /\ LoadedNewsIds(bot_state_json', TRUE) = published_news_ids']_vars

(* a cycle post, a price post and a manual post were made, and the file    *)
(* holds what the process holds                                            *)
C18_Witness ==
    /\ Total(newsPubCount) > 0
    /\ Total(priceCount) > 0
    /\ ManualPublications > 0
    /\ published_news_ids # {}
    /\ bot_state_json = SavedState(last_post_time, published_posts_hashes,
                                   published_news_ids)

(* C19: when the process dies inside a save and is started again, the load *)
(* reads a complete state, the one of before the save or the new one:      *)
(* whatever bot_state.json held before the save is still known after the   *)
(* start.                                                                  *)
C19_SaveIsAtomicUnderCrash ==
    [][(restarts' # restarts /\ Total(pubCount') # Total(pubCount)) =>
          /\ LoadedHashes(bot_state_json, TRUE) \subseteq published_posts_hashes'
          /\ LoadedNewsIds(bot_state_json, TRUE) \subseteq published_news_ids'
          /\ LoadedLastPostTime(bot_state_json, TRUE) # NoTime =>
                 last_post_time' # NoTime]_vars

(* C20: a send to the channel that fails is followed by a text-only send   *)
(* before the attempt ends, in publish_post and in publish_post_manual     *)
(* alike: the step that leaves the first send without a publication enters *)
(* the text-only send.                                                     *)
C20_FailedSendIsFollowedByTextOnlySend ==
    [][/\ (att.pc = "send" /\ att'.pc # "send" /\ restarts' = restarts
            /\ Total(pubCount') = Total(pubCount)) => att'.pc = "fallback"
       /\ (man.pc = "send" /\ man'.pc # "send" /\ restarts' = restarts
            /\ Total(pubCount') = Total(pubCount)) => man'.pc = "fallback"]_vars

C22_NoImageStillPublishesText ==
    [][/\ (att.pc = "gen" /\ att'.pc \notin {"gen", "idle"}) =>
             /\ att'.pc \in {"image", "send"}
             /\ att'.image_url = NoUrl
       /\ (att.pc = "image" /\ att'.pc # "image") =>
             /\ att'.pc = "send"
             /\ att'.content = att.content
       /\ (att.pc = "send" /\ att.image_url = NoUrl /\ att'.pc = "idle") =>
             /\ outbox'.post = "send_message"
             /\ pubCount' = [pubCount EXCEPT ![get_post_hash(att.content)] = @ + 1]
             /\ posts_today' = posts_today + 1
             /\ get_post_hash(att.content) \in published_posts_hashes'
             /\ att.news_id # NoId => att.news_id \in published_news_ids'
             /\ att.kind = "news" => last_post_time' = now
             /\ LoadedHashes(bot_state_json', TRUE) = published_posts_hashes'
             /\ LoadedNewsIds(bot_state_json', TRUE) = published_news_ids'
             /\ rl' = NextPos(rl)]_vars

(* the image task of the first cycle post ran out of polls or failed at    *)
(* the last one, and the post went out as text and was recorded            *)
C22_Witness ==
    /\ outbox.post = "send_message"
    /\ now = scn.start + max_attempts * ImagePollSec
    /\ Total(pubCount) = 1
    /\ posts_today = 1
    /\ last_post_time = now
    /\ published_news_ids # {}
    /\ rl = "top"

(* C23: at most one publish attempt is in flight: while publish_post is    *)
(* suspended in the Image Generator or in a send, no publish_post_manual   *)
(* is under way, and none starts.                                          *)
C23_OnePublishAttemptInFlight ==
    ~(att.pc \in InPublishPost /\ man.pc = "send")

(* C24: with run_loop and the command task interleaved at their awaits, no *)
(* hash is published twice, and no cycle post is published less than the   *)
(* minimum interval after last_post_time was last set, by either path.     *)
C24_NoInterleavingBreaksGuards ==
    [][/\ \A h \in Hashes : pubCount'[h] <= 1
       /\ (cycleTimes' # cycleTimes /\ last_post_time # NoTime) =>
             now - last_post_time >= MinIntervalSec]_vars

(* C25: a poll in which the News Source raises FloodWaitError returns      *)
(* after e.seconds without raising into run_loop: the attempt ends with    *)
(* nothing published and nothing changed, run_loop goes on to its next     *)
(* step, and processed_message_ids and processed_ids.txt hold every id     *)
(* they held before.                                                       *)
C25_FloodWaitSuspendsAndKeepsIds ==
    [][(PollReturns /\ now' # now) =>
          /\ now' - now \in scn.floods
          /\ processed_message_ids \subseteq processed_message_ids'
          /\ processed_ids_txt \subseteq processed_ids_txt'
          /\ UNCHANGED <<mem, pubs, wake>>
          /\ rl # "test_connection" => att' = Idle /\ rl' = NextPos(rl)]_vars

(* the poll of the start was rate-limited after it had marked an id; the   *)
(* FloodWait was slept out, and the next tick is polling again             *)
C25_Witness ==
    /\ att.pc = "poll"
    /\ rl = "tick_news"
    /\ \E d \in scn.floods : now >= scn.start + d
    /\ processed_message_ids # {}
    /\ Total(pubCount) = 0

(* C26: whenever run_loop is inside one of its checks, at the start or in  *)
(* a tick, it reaches its next asyncio.sleep, whichever of the News        *)
(* Source, the Price Source, the Content Generator, the Image Generator    *)
(* and the Channel Publisher fail in that check: no failure ends run_loop. *)
C26_LoopSurvivesCollaboratorFailures ==
    (Running /\ rl # "sleeping") ~> (rl = "sleeping")

(* the Price Source, the Content Generator or the Channel Publisher failed *)
(* and nothing was published, and run_loop has since woken, made the       *)
(* checks of a tick and gone to sleep again                                *)
C26_Witness ==
    /\ collabFailed
    /\ Total(pubCount) = 0
    /\ rl = "sleeping"
    /\ ticks < scn.ticks

----------------------------------------------------------------------------
(* RelevanceClassifier on the texts of the news channel                    *)

(* the keywords of a table found in text, as is_relevant_news looks for    *)
(* them                                                                    *)
Found(keywords, text) == {kw \in keywords : Contains(lower(text), kw)}
(* the messages get_new_relevant_news returned last *)
Returned(message) == \E i \in DOMAIN polled : polled[i] = message

(* C27: is_relevant_news is false for every text that contains one of      *)
(* ukraine_keywords, whatever strict, general, context or political        *)
(* keywords the text contains as well; no poll returns such a message.     *)
C27_ExclusionTermAlwaysRejects ==
    \A i \in DOMAIN channel_feed :
        LET message == channel_feed[i]
        IN  Found(ukraine_keywords, message.text) # {} =>
                /\ ~is_relevant_news(message.text)
                /\ ~Returned(message)

(* the start-up poll has read a message that names Ukraine together with  *)
(* a strict keyword, and returned nothing                                  *)
C27_Witness ==
    /\ rl = "init_morning"
    /\ polled = <<>>
    /\ \E i \in DOMAIN channel_feed :
          /\ Found(ukraine_keywords, channel_feed[i].text) # {}
          /\ Found(strict_crypto_keywords, channel_feed[i].text) # {}
          /\ channel_feed[i].id \notin processed_message_ids

(* C28: for a text without ukraine_keywords, is_relevant_news is true when *)
(* a strict keyword is found, political marker or not, and false when a    *)
(* political marker is found and no strict keyword, however many general   *)
(* or context keywords are found.                                          *)
C28_StrictBeatsPoliticalBeatsGeneral ==
    \A i \in DOMAIN channel_feed :
        LET text == channel_feed[i].text
        IN  Found(ukraine_keywords, text) = {} =>
                /\ Found(strict_crypto_keywords, text) # {} => is_relevant_news(text)
                /\ (/\ Found(political_markers, text) # {}
                    /\ Found(strict_crypto_keywords, text) = {})
                        => /\ ~is_relevant_news(text)
                           /\ ~Returned(channel_feed[i])

(* a poll has returned a message with a political marker and a strict      *)
(* keyword                                                                 *)
C28_Witness ==
    \E i \in DOMAIN polled :
        /\ Found(political_markers, polled[i].text) # {}
        /\ Found(strict_crypto_keywords, polled[i].text) # {}

(* C29: for a text that is not empty and has no ukraine_keywords, no       *)
(* political marker and no strict keyword, is_relevant_news is true        *)
(* exactly when two general keywords are found, or one general keyword     *)
(* and a keyword of financial_context or tech_context; for the empty text  *)
(* it is false.                                                            *)
C29_GeneralKeywordsNeedCompany ==
    \A i \in DOMAIN channel_feed :
        LET text == channel_feed[i].text
        IN  /\ text = NoText => ~is_relevant_news(text)
            /\ (/\ text # NoText
                /\ Found(ukraine_keywords, text) = {}
                /\ Found(political_markers, text) = {}
                /\ Found(strict_crypto_keywords, text) = {})
                    => (is_relevant_news(text) <=>
                          \/ Cardinality(Found(general_keywords, text)) >= 2
                          \/ /\ Found(general_keywords, text) # {}
                             /\ Found(financial_context \cup tech_context, text) # {})

(* the start-up poll has read a message whose only keyword is one general  *)
(* keyword, and returned nothing                                           *)
C29_Witness ==
    /\ rl = "init_morning"
    /\ polled = <<>>
    /\ \E i \in DOMAIN channel_feed :
          LET text == channel_feed[i].text
          IN  /\ Cardinality(Found(general_keywords, text)) = 1
              /\ Found(ukraine_keywords \cup political_markers
                         \cup strict_crypto_keywords \cup financial_context
                         \cup tech_context, text) = {}
              /\ channel_feed[i].id \notin processed_message_ids

----------------------------------------------------------------------------
(* Answers to the operator                                                 *)

NegativeAcks == {"publication_error", "generation_error"}

(* a manual publish attempt ends: the generation gave no text, the text    *)
(* was refused as a duplicate, or the send returned or raised              *)
ManualAttemptEnds ==
    \/ man.pc = "send" /\ man'.pc = "idle"
    \/ manualCount' = manualCount + 1 /\ man'.pc = "idle"

----------------------------------------------------------------------------
(* The cycle track within one tick                                         *)

(* C31: between two sleeps of run_loop the cycle track calls generate_post *)
(* at most once and publish_post at most once; when generate_post returned *)
(* None, publish_post is not called before the next sleep, so nothing of   *)
(* the cycle track is published, and generate_post is not called again.    *)
C31_OneGenerationOneAttemptPerTick ==
    /\ outbox.gens <= 1
    /\ outbox.attempts <= 1
    /\ outbox.attempts <= outbox.gens
    /\ outbox.gen_null => outbox.attempts = 0 /\ att.kind # "news"

(* generate_post returned None to the cycle track, which is back in        *)
(* run_loop with nothing published and the price checks of the tick ahead  *)
C31_Witness ==
    /\ outbox.gen_null
    /\ outbox.gens = 1
    /\ rl = "tick_morning"
    /\ Total(pubCount) = 0

----------------------------------------------------------------------------
(* publish_post and the news ids                                           *)

(* publish_post returns True: the step of run_loop's attempt that adds a   *)
(* publication                                                             *)
PublishPostSucceeds ==
    /\ att.pc \in {"send", "fallback"}
    /\ restarts' = restarts
    /\ man' = man
    /\ Total(pubCount') = Total(pubCount) + 1

(* C32: a publish_post call made with a news id that returns True leaves   *)
(* the id in published_news_ids, after the first send and after the        *)
(* text-only send of either except branch.                                 *)
C32_SuccessfulPublishMarksNewsId ==
    [][(PublishPostSucceeds /\ att.news_id # NoId) =>
          att.news_id \in published_news_ids']_vars

----------------------------------------------------------------------------
----------------------------------------------------------------------------
(* C34: every id a call of get_new_relevant_news adds to                   *)
(* processed_message_ids is the id of an item in the list the call         *)
(* returns, also when the source raises part-way through the iteration     *)
C34_MarkedIdsAreReturned ==
    [][PollReturns =>
          (processed_message_ids' \ processed_message_ids) \subseteq IdsOf(polled')]_vars

----------------------------------------------------------------------------
(* C35: a call of publish_post by run_loop that returned True delivered    *)
(* exactly one message to the channel, one that returned False (from its   *)
(* duplicate checks or after the text-only send raised) delivered none,    *)
(* a call still in progress has delivered none, and no call delivers two   *)
C35_SuccessIffOneMessageDelivered ==
    /\ outbox.delivered <= 1
    /\ outbox.result = "True" => outbox.delivered = 1
    /\ outbox.result = "False" => outbox.delivered = 0
    /\ outbox.result = "none" => outbox.delivered = 0

(* the first send raised and the text-only send of the except branch       *)
(* delivered the post: publish_post returned True                          *)
C35_Witness ==
    /\ outbox.result = "True"
    /\ outbox.delivered = 1
    /\ outbox.post = "fallback_send_message"
    /\ att = Idle

----------------------------------------------------------------------------
(* C36: the text of every post the cycle track delivers passed             *)
(* is_relevant_news; and the step in which check_and_publish_new_news      *)
(* rejects a generated text as not relevant ends the attempt, delivers     *)
(* nothing and leaves the scheduler fields, the sets of published hashes   *)
(* and news ids, the processed ids and both files as they were             *)
C36_RejectedTextChangesNothing ==
    [][/\ (att.kind = "news" /\ Total(pubCount') > Total(pubCount)) =>
              is_relevant_news(att.content)
       /\ (outbox'.rejected /\ ~outbox.rejected) =>
              /\ att' = Idle
              /\ outbox'.delivered = outbox.delivered
              /\ outbox'.post = outbox.post
              /\ UNCHANGED <<mem, processed_message_ids, disk, pubs>>]_vars

(* after the evening price post the text generated from a news item was    *)
(* rejected: the price post is the only publication                        *)
C36_Witness ==
    /\ outbox.rejected
    /\ rl = "top"
    /\ Total(pubCount) = 1
    /\ Total(newsPubCount) = 0
    /\ outbox.result = "True"

----------------------------------------------------------------------------
(* C37: when the process is started again on a file system without faults, *)
(* bot_state.json, if there is one, holds what _save_state wrote from the  *)
(* last_post_time, published_posts_hashes and published_news_ids of the    *)
(* stopped process, and the new process starts with the same three values: *)
(* every content and every news id the stopped process refused is still    *)
(* refused                                                                 *)
C37_SaveThenLoadRestoresState ==
    [][restarts' # restarts =>
          /\ bot_state_json.exists =>
                 bot_state_json = SavedState(last_post_time, published_posts_hashes,
                                             published_news_ids)
          /\ last_post_time' = last_post_time
          /\ published_posts_hashes' = published_posts_hashes
          /\ published_news_ids' = published_news_ids
          /\ \A c \in Contents :
                 is_duplicate(c) => get_post_hash(c) \in published_posts_hashes'
          /\ \A h \in Hashes : pubCount[h] > 0 => h \in published_posts_hashes']_vars

(* the process was started again after a cycle post and holds its time,    *)
(* its hash and its news id                                                *)
C37_Witness ==
    /\ restarts > 0
    /\ rl = "test_connection"
    /\ last_post_time # NoTime
    /\ published_posts_hashes # {}
    /\ published_news_ids # {}
    /\ bot_state_json = SavedState(last_post_time, published_posts_hashes,
                                   published_news_ids)

----------------------------------------------------------------------------
(* The /p dialog.  Here pending_posts is the dictionary it is in the code: *)
(* a function from the ids of the users that have an entry to entries      *)
(* (the empty dictionary is <<>>); an entry holds the keys the handlers    *)
(* write, with the value .get() gives for a key that is absent.            *)
(* pending_images stays empty: nobody uses /genetat.                       *)

ADMIN_USER_ID == 1
OtherUserId == 2
Users == {ADMIN_USER_ID, OtherUserId}

(* the length tests of handle_forwarded_message *)
AnalysisMinLen == 3
EditMinLen == 5
ForwardMinLen == 10

TextOk == <<"o", "k">>
(* text (or caption) of a message sent to the bot *)
MessageTexts == {TextOk, NewsHello, NewsBtc}
(* what generate_post_from_text returns *)
DialogContents == {GenTon, GenBtc}
CallbackData == {"generate_image_for_post_", "publish_no_image_", "publish_",
                 "edit_", "skip_analysis_", "cancel_"}

(* the updates of a private chat: the command /p, a message with text      *)
(* (media "text") or a video with caption (media "video"), forwarded or    *)
(* not, and the press of a button                                          *)
Commands ==
    {[kind |-> "command", user |-> u, forwarded |-> FALSE, media |-> "text",
      text |-> NoText, data |-> "/p"] : u \in Users}
Messages ==
    {[kind |-> "message", user |-> u, forwarded |-> f, media |-> m,
      text |-> t, data |-> "none"] :
         u \in Users, f \in BOOLEAN, m \in {"text", "video"}, t \in MessageTexts}
Callbacks ==
    {[kind |-> "callback", user |-> u, forwarded |-> FALSE, media |-> "none",
      text |-> NoText, data |-> d] : u \in Users, d \in CallbackData}

NewEntry == [waiting_for_forward |-> FALSE, waiting_for_analysis |-> FALSE,
             waiting_for_edit |-> FALSE, original_text |-> NoText,
             generated_text |-> NoText, user_analysis |-> NoText]
(* user_id in self.pending_posts *)
Has(u) == u \in DOMAIN pending_posts
(* self.pending_posts[user_id].get(key) for a user that may have no entry *)
Get(u, key) == IF Has(u) THEN pending_posts[u][key] ELSE NewEntry[key]
(* self.pending_posts[user_id] = entry *)
Put(u, entry) ==
    [v \in DOMAIN pending_posts \cup {u} |-> IF v = u THEN entry ELSE pending_posts[v]]
(* del self.pending_posts[user_id] *)
Del(u) == [v \in DOMAIN pending_posts \ {u} |-> pending_posts[v]]

(* the update the application took from the queue and the handler it ran *)
Handled(update, handler) ==
    outbox' = [outbox EXCEPT !.update = update, !.updates = @ + 1,
                             !.handler = handler]

(* the command task is free and may take another update *)
TakesUpdate ==
    /\ rl = "sleeping"
    /\ man = ManIdle
    /\ outbox.updates < scn.manual

(* faulty variant of handle_p_command: the user id is not compared with    *)
(* ADMIN_USER_ID                                                           *)
HandlePCommandOpen(u) ==
    pending_posts' = Put(u, [NewEntry EXCEPT !.waiting_for_forward = TRUE])

handle_p_command(u) ==
    IF u # ADMIN_USER_ID THEN UNCHANGED pending_posts
    ELSE pending_posts' = Put(u, [NewEntry EXCEPT !.waiting_for_forward = TRUE])

(* handle_forwarded_message for a message whose text (or caption) is text  *)
handle_forwarded_message(u, text) ==
    IF u # ADMIN_USER_ID THEN UNCHANGED pending_posts
    ELSE IF Get(u, "waiting_for_analysis")
    THEN LET analysis_text == IF Len(strip(text)) < AnalysisMinLen THEN NoText
                              ELSE strip(text)
         IN  \E generated_text \in DialogContents \cup {NoText} :
                 pending_posts' =
                     IF generated_text = NoText THEN Del(u)
                     ELSE Put(u, [NewEntry EXCEPT
                                     !.original_text = Get(u, "original_text"),
                                     !.generated_text = generated_text,
                                     !.user_analysis = analysis_text])
    ELSE IF Get(u, "waiting_for_edit")
    THEN LET edited_text == strip(text)
         IN  IF Len(edited_text) < EditMinLen THEN UNCHANGED pending_posts
             ELSE pending_posts' =
                      Put(u, [pending_posts[u] EXCEPT !.generated_text = edited_text,
                                                      !.waiting_for_edit = FALSE])
    ELSE IF ~Get(u, "waiting_for_forward") THEN UNCHANGED pending_posts
    ELSE IF Len(strip(text)) < ForwardMinLen THEN UNCHANGED pending_posts
    ELSE pending_posts' = Put(u, [NewEntry EXCEPT !.waiting_for_analysis = TRUE,
                                                  !.original_text = text])

(* handle_image_message with pending_images empty: a forwarded message and *)
(* a message of a user who is waiting_for_forward are handed to            *)
(* handle_forwarded_message, for any other message the handler returns     *)
handle_image_message(u, forwarded, text) ==
    IF forwarded \/ Get(u, "waiting_for_forward")
    THEN handle_forwarded_message(u, text)
    ELSE UNCHANGED pending_posts

(* setup_command_handlers: both MessageHandlers are added to the same      *)
(* group, and of the handlers of a group the application runs the first    *)
(* whose filter matches: (PHOTO | TEXT) & PRIVATE for handle_image_message *)
(* before (FORWARDED | TEXT) & PRIVATE for handle_forwarded_message        *)
HandlerOf(m) ==
    IF m.media = "text" THEN "handle_image_message"
    ELSE IF m.forwarded THEN "handle_forwarded_message"
    ELSE "none"

PCommand ==
    /\ TakesUpdate
    /\ \E c \in Commands :
        /\ handle_p_command(c.user)
        /\ Handled(c, "handle_p_command")
    /\ UNCHANGED <<mem, processed_message_ids, disk, now, scn, ticks, channel_feed,
                   loop, man, pubs, overlapped, restarts, manualCount, collabFailed,
                   dupLog, polled, returned>>

MessageUpdate ==
    /\ TakesUpdate
    /\ \E m \in Messages :
        /\ CASE HandlerOf(m) = "handle_image_message" ->
                    handle_image_message(m.user, m.forwarded, m.text)
             [] HandlerOf(m) = "handle_forwarded_message" ->
                    handle_forwarded_message(m.user, m.text)
             [] OTHER -> UNCHANGED pending_posts
        /\ Handled(m, HandlerOf(m))
    /\ UNCHANGED <<mem, processed_message_ids, disk, now, scn, ticks, channel_feed,
                   loop, man, pubs, overlapped, restarts, manualCount, collabFailed,
                   dupLog, polled, returned>>

(* handle_callback_query for the buttons of /p; publish_...: up to the      *)
(* await of publish_post_manual                                            *)
CallbackUpdate ==
    /\ TakesUpdate
    /\ \E q \in Callbacks :
        /\ Handled(q, "handle_callback_query")
        /\ LET u == q.user
           IN  IF u # ADMIN_USER_ID
               THEN UNCHANGED <<pending_posts, man, manualCount>>
               ELSE IF q.data \in {"generate_image_for_post_"}
               THEN UNCHANGED <<pending_posts, man, manualCount>>
               ELSE IF q.data \in {"publish_no_image_", "publish_"}
               THEN IF Get(u, "generated_text") = NoText
                    THEN UNCHANGED <<pending_posts, man, manualCount>>
                    ELSE /\ manualCount' = manualCount + 1
                         /\ IF is_duplicate(Get(u, "generated_text"))
                            THEN /\ pending_posts' = Del(u)
                                 /\ man' = man
                            ELSE /\ man' = [pc |-> "send",
                                            content |-> Get(u, "generated_text")]
                                 /\ pending_posts' = pending_posts
               ELSE IF q.data = "edit_"
               THEN /\ IF Get(u, "generated_text") = NoText
                       THEN UNCHANGED pending_posts
                       ELSE pending_posts' =
                                Put(u, [pending_posts[u] EXCEPT !.waiting_for_edit = TRUE])
                    /\ UNCHANGED <<man, manualCount>>
               ELSE IF q.data = "skip_analysis_"
               THEN /\ IF Get(u, "original_text") = NoText
                       THEN UNCHANGED pending_posts
                       ELSE \E generated_text \in DialogContents \cup {NoText} :
                               pending_posts' =
                                   IF generated_text = NoText THEN Del(u)
                                   ELSE Put(u, [NewEntry EXCEPT
                                                   !.original_text = Get(u, "original_text"),
                                                   !.generated_text = generated_text])
                    /\ UNCHANGED <<man, manualCount>>
               ELSE /\ pending_posts' = Del(u)
                    /\ UNCHANGED <<man, manualCount>>
    /\ UNCHANGED <<mem, processed_message_ids, disk, now, scn, ticks, channel_feed,
                   loop, pubs, overlapped, restarts, collabFailed, dupLog, polled,
                   returned>>

(* the start of the process, then the updates of the private chats while   *)
(* run_loop sleeps                                                         *)
NextDialog ==
    \/ TypedLoop
    \/ PCommand
    \/ MessageUpdate
    \/ CallbackUpdate
    \/ ManualSendDone

SpecDialog == InitDialog /\ [][NextDialog]_vars

----------------------------------------------------------------------------
(* C38: publish_post_manual is called only in the step that handles a      *)
(* publish_ or publish_no_image_ button pressed by ADMIN_USER_ID while     *)
(* pending_posts holds a generated_text for that user, and with that text; *)
(* a post of the command task reaches the channel only at the end of such  *)
(* a call; no user but ADMIN_USER_ID ever has an entry in pending_posts,   *)
(* and an update of another user changes neither pending_posts nor the     *)
(* call in flight nor what was published                                   *)
C38_OnlyAdminPublishCallbackPublishes ==
    [][/\ DOMAIN pending_posts' \subseteq {ADMIN_USER_ID}
       /\ (manualCount' # manualCount \/ (man'.pc = "send" /\ man.pc # "send")) =>
              /\ outbox'.updates = outbox.updates + 1
              /\ outbox'.update.kind = "callback"
              /\ outbox'.update.user = ADMIN_USER_ID
              /\ outbox'.update.data \in {"publish_", "publish_no_image_"}
              /\ Has(ADMIN_USER_ID)
              /\ pending_posts[ADMIN_USER_ID].generated_text # NoText
              /\ man'.pc = "send" =>
                     man'.content = pending_posts[ADMIN_USER_ID].generated_text
       /\ Total(pubCount') # Total(pubCount) => man.pc = "send"
       /\ (outbox'.updates # outbox.updates /\ outbox'.update.user # ADMIN_USER_ID) =>
              UNCHANGED <<pending_posts, man, manualCount, pubs, mem>>]_vars

(* the operator's post was published after a publish_ button of the        *)
(* operator was handled as the last of MaxUpdates updates                  *)
C38_Witness ==
    /\ Total(pubCount) = 1
    /\ manualCount = 1
    /\ man = ManIdle
    /\ outbox.updates = MaxUpdates
    /\ outbox.update.kind = "callback"
    /\ outbox.update.user = ADMIN_USER_ID
    /\ outbox.update.data = "publish_"

(* C39: when the admin sends a plain text message (not forwarded) while    *)
(* the pending post is waiting_for_edit and the stripped text has at least *)
(* EditMinLen characters, the registered handlers leave it as              *)
(* generated_text with waiting_for_edit cleared; and when the admin sends  *)
(* one while the pending post is waiting_for_analysis, generation is       *)
(* started with it: afterwards the entry is gone (no text was generated)   *)
(* or holds a generated_text and that analysis                             *)
C39_PlainTextReachesEditAndAnalysis ==
    [][(/\ outbox'.updates = outbox.updates + 1
        /\ outbox'.update.kind = "message"
        /\ outbox'.update.user = ADMIN_USER_ID
        /\ outbox'.update.media = "text"
        /\ ~outbox'.update.forwarded
        /\ Has(ADMIN_USER_ID)) =>
          /\ (/\ Get(ADMIN_USER_ID, "waiting_for_edit")
              /\ ~Get(ADMIN_USER_ID, "waiting_for_analysis")
              /\ Len(strip(outbox'.update.text)) >= EditMinLen) =>
                 /\ ADMIN_USER_ID \in DOMAIN pending_posts'
                 /\ pending_posts'[ADMIN_USER_ID].generated_text =
                        strip(outbox'.update.text)
                 /\ ~pending_posts'[ADMIN_USER_ID].waiting_for_edit
          /\ Get(ADMIN_USER_ID, "waiting_for_analysis") =>
                 \/ ADMIN_USER_ID \notin DOMAIN pending_posts'
                 \/ /\ pending_posts'[ADMIN_USER_ID].generated_text # NoText
                    /\ ~pending_posts'[ADMIN_USER_ID].waiting_for_analysis
                    /\ pending_posts'[ADMIN_USER_ID].user_analysis =
                           (IF Len(strip(outbox'.update.text)) < AnalysisMinLen
                            THEN NoText ELSE strip(outbox'.update.text))]_vars

----------------------------------------------------------------------------
(* C40: whatever the reaction generator answers, publish_post delivers the *)
(* post and returns True; the text sent begins with the unchanged post     *)
(* content, and when the generator raised, answered with another status    *)
(* than 200 or gave a text that is empty after stripping, the text sent is *)
(* the content followed by the fixed fallback reaction of the tone found   *)
C40_ReactionFailureNeverFailsPublish ==
    outbox.opinion # NoOpinion =>
        /\ outbox.result = "True"
        /\ outbox.delivered = 1
        /\ Len(outbox.opinion.text) > Len(outbox.opinion.content)
        /\ SubSeq(outbox.opinion.text, 1, Len(outbox.opinion.content)) =
               outbox.opinion.content
        /\ (\/ outbox.opinion.response.raised
            \/ outbox.opinion.response.status_code # 200
            \/ strip(outbox.opinion.response.content) = NoText) =>
               outbox.opinion.text =
                   outbox.opinion.content \o
                       (IF outbox.opinion.emoji = Clown
                        THEN <<"\n", "\n", Clown, " ", "-", " ">> \o FallbackClown
                        ELSE <<"\n", "\n", Fire, " ", "-", " ">> \o FallbackFire)

(* the generator raised for a post of positive tone and the post went out  *)
(* with the fallback reaction of that tone                                 *)
C40_Witness ==
    /\ outbox.opinion.response.raised
    /\ outbox.opinion.emoji = Fire
    /\ outbox.opinion.text = outbox.opinion.content \o Formatted(Fire, FallbackFire)
    /\ outbox.result = "True"
    /\ att = Idle

============================================================================
